---- MODULE Spec2Model ----
(***************************************************************************)
(* Model of the ProtobufKMM generator engine (src/generator.py) and of the *)
(* data-class hooks of src/protoc-gen-kmm-data.py.                         *)
(*                                                                         *)
(* Strings are sequences of atoms.  Every character the code inspects      *)
(* (letters of names, "_", ".", ",", "?", ":", " ", "=", the quote and the  *)
(* newline) is an atom of its own; a literal fragment of an output         *)
(* template that the code never inspects may be a single atom.             *)
(* A Python exception is the value Err; None is the value None.            *)
(***************************************************************************)
EXTENDS Integers, Sequences, FiniteSets, TLC

VARIABLES swift, req, parameters, options, packageName, javaPackage,
          kmmPackage, response, stdout, pc, fileIdx, calls,
          fnName, fnIn, fnOut

vars == <<swift, req, parameters, options, packageName, javaPackage,
          kmmPackage, response, stdout, pc, fileIdx, calls,
          fnName, fnIn, fnOut>>

engineVars == <<swift, req, parameters, options, packageName, javaPackage,
                kmmPackage, response, stdout, pc, fileIdx, calls>>

probeVars == <<fnName, fnIn, fnOut>>

\* Values that are not strings are one-atom sequences no string can equal
None == <<"!None">>
Err == <<"!Error">>
Unset == <<"!Unset">>
True == <<"!True">>
False == <<"!False">>

(***************************************************************************)
(* Bounds                                                                  *)
(***************************************************************************)
MaxNameLen == 3
MaxFiles == 2

(***************************************************************************)
(* Python string primitives                                                *)
(***************************************************************************)
LowerLetters == <<"a","b","c","d","e","f","g","h","i","j","k","l","m",
                  "n","o","p","q","r","s","t","u","v","w","x","y","z">>
UpperLetters == <<"A","B","C","D","E","F","G","H","I","J","K","L","M",
                  "N","O","P","Q","R","S","T","U","V","W","X","Y","Z">>

IndexIn(c, letters) ==
    IF \E i \in 1..Len(letters) : letters[i] = c
    THEN CHOOSE i \in 1..Len(letters) : letters[i] = c
    ELSE 0

\* str.upper() on one character
UpperChar(c) ==
    IF IndexIn(c, LowerLetters) # 0 THEN UpperLetters[IndexIn(c, LowerLetters)]
    ELSE c

\* str.lower() on one character
LowerChar(c) ==
    IF IndexIn(c, UpperLetters) # 0 THEN LowerLetters[IndexIn(c, UpperLetters)]
    ELSE c

\* str.upper()
Upper(s) == [i \in 1..Len(s) |-> UpperChar(s[i])]

\* str.lower()
Lower(s) == [i \in 1..Len(s) |-> LowerChar(s[i])]

\* s[1:]
Rest(s) == IF Len(s) = 0 THEN <<>> ELSE SubSeq(s, 2, Len(s))

\* str.capitalize(): first character uppercased, all the others lowercased
Capitalize(s) ==
    IF Len(s) = 0 THEN <<>> ELSE <<UpperChar(s[1])>> \o Lower(Rest(s))

\* sep in s / s.startswith / s.endswith
StartsWith(s, p) == Len(s) >= Len(p) /\ SubSeq(s, 1, Len(p)) = p
EndsWith(s, p) == Len(s) >= Len(p) /\ SubSeq(s, Len(s) - Len(p) + 1, Len(s)) = p
OccursAt(s, p, i) == i + Len(p) - 1 <= Len(s) /\ SubSeq(s, i, i + Len(p) - 1) = p
Contains(s, p) == \E i \in 1..Len(s) : OccursAt(s, p, i)

\* str.split(sep): a sequence of strings, never empty
RECURSIVE Split(_, _)
Split(s, sep) ==
    IF ~Contains(s, sep) THEN <<s>>
    ELSE LET i == CHOOSE k \in 1..Len(s) :
                      OccursAt(s, sep, k) /\ \A j \in 1..(k-1) : ~OccursAt(s, sep, j)
         IN <<SubSeq(s, 1, i - 1)>> \o Split(SubSeq(s, i + Len(sep), Len(s)), sep)

\* sep.join(parts)
RECURSIVE Join(_, _)
Join(sep, parts) ==
    IF Len(parts) = 0 THEN <<>>
    ELSE IF Len(parts) = 1 THEN parts[1]
    ELSE parts[1] \o sep \o Join(sep, Tail(parts))

\* "".join(parts)
Concat(parts) == Join(<<>>, parts)

\* str.replace(c, "") for a one-character c
RECURSIVE RemoveChar(_, _)
RemoveChar(s, c) ==
    IF Len(s) = 0 THEN <<>>
    ELSE IF s[1] = c THEN RemoveChar(Tail(s), c)
    ELSE <<s[1]>> \o RemoveChar(Tail(s), c)

IsSpace(c) == c \in {" ", "\n"}

\* str.strip()
RECURSIVE LStrip(_)
LStrip(s) == IF Len(s) > 0 /\ IsSpace(s[1]) THEN LStrip(Tail(s)) ELSE s
RECURSIVE RStrip(_)
RStrip(s) ==
    IF Len(s) > 0 /\ IsSpace(s[Len(s)]) THEN RStrip(SubSeq(s, 1, Len(s) - 1)) ELSE s
Strip(s) == RStrip(LStrip(s))

(***************************************************************************)
(* Naming                                                                  *)
(***************************************************************************)
\* A variant of typeNameCase that keeps the tail of every segment as it is
typeNameCaseKeepTail(name) ==
    IF Len(name) = 0 THEN Err
    ELSE IF ~Contains(name, <<"_">>) THEN <<UpperChar(name[1])>> \o Rest(name)
    ELSE LET elements == Split(name, <<"_">>)
         IN Concat([i \in 1..Len(elements) |->
                IF Len(elements[i]) = 0 THEN <<>>
                ELSE <<UpperChar(elements[i][1])>> \o Rest(elements[i])])

\* Generator.typeNameCase; name[0] of an empty name raises IndexError
typeNameCase(name) ==
    IF Len(name) = 0 THEN Err
    ELSE IF ~Contains(name, <<"_">>) THEN <<UpperChar(name[1])>> \o Rest(name)
    ELSE LET elements == Split(name, <<"_">>)
         IN Concat([i \in 1..Len(elements) |-> Capitalize(elements[i])])

\* Generator.enumCase
enumCase(name) == Upper(name)

\* Generator.memberCase
memberCase(name) ==
    IF Len(name) = 0 THEN Err
    ELSE IF ~Contains(name, <<"_">>) THEN <<LowerChar(name[1])>> \o Rest(name)
    ELSE LET elements == Split(name, <<"_">>)
             caps == [i \in 1..Len(elements) |-> Capitalize(elements[i])]
         IN IF Len(caps[1]) = 0 THEN Err
            ELSE Concat([i \in 1..Len(caps) |->
                    IF i = 1 THEN <<LowerChar(caps[1][1])>> \o Rest(caps[1])
                    ELSE caps[i]])

\* Generator.swiftMemberCase; the branch for a name without "_" has no
\* return, so the name it builds goes through the split like any other
swiftMemberCase(name) ==
    IF Len(name) = 0 THEN Err
    ELSE LET name1 == IF ~Contains(name, <<"_">>)
                      THEN LET lowered == <<LowerChar(name[1])>> \o Rest(name)
                           IN IF EndsWith(lowered, <<"I", "d">>)
                              THEN SubSeq(lowered, 1, Len(lowered) - 1) \o <<"D">>
                              ELSE lowered
                      ELSE name
             elements == Split(name1, <<"_">>)
             caps == [i \in 1..Len(elements) |-> Capitalize(elements[i])]
         IN IF Len(caps[1]) = 0 THEN Err
            ELSE Concat([i \in 1..Len(caps) |->
                    IF i = 1 THEN <<LowerChar(caps[1][1])>> \o Rest(caps[1])
                    ELSE IF caps[i] = <<"I", "d">> THEN <<"I", "D">>
                    ELSE caps[i]])

(***************************************************************************)
(* Type mapper                                                             *)
(***************************************************************************)
TYPE_GROUP == 10
TYPE_MESSAGE == 11
TYPE_ENUM == 14
LABEL_REPEATED == 3

sDouble == <<"D","o","u","b","l","e">>
sFloat == <<"F","l","o","a","t">>
sLong == <<"L","o","n","g">>
sInt == <<"I","n","t">>
sBoolean == <<"B","o","o","l","e","a","n">>
sString == <<"S","t","r","i","n","g">>
sByteArray == <<"B","y","t","e","A","r","r","a","y">>
sAny == <<"A","n","y">>

\* Generator.knownTypes, indexed by wire-type code + 1
knownTypes ==
    << None,
       sDouble, sFloat, sLong, sLong, sInt,
       sLong, sInt, sBoolean, sString,
       None,
       None,
       sByteArray, sInt,
       None,
       sInt, sLong,
       sInt, sLong >>

\* Generator.knownTypesByName, a dict
knownTypesByName ==
    [k \in { <<"d","o","u","b","l","e">>, <<"f","l","o","a","t">>, <<"i","n","t","3","2">>, <<"i","n","t","6","4">>, <<"u","i","n","t","3","2">>,
             <<"u","i","n","t","6","4">>, <<"s","i","n","t","3","2">>, <<"s","i","n","t","6","4">>, <<"f","i","x","e","d","3","2">>, <<"f","i","x","e","d","6","4">>,
             <<"s","f","i","x","e","d","3","2">>, <<"s","f","i","x","e","d","6","4">>, <<"b","o","o","l">>, <<"s","t","r","i","n","g">>, <<"b","y","t","e","s">> } |->
        CASE k = <<"d","o","u","b","l","e">> -> sDouble
          [] k = <<"f","l","o","a","t">> -> sFloat
          [] k \in { <<"i","n","t","3","2">>, <<"u","i","n","t","3","2">>, <<"s","i","n","t","3","2">>, <<"f","i","x","e","d","3","2">>, <<"s","f","i","x","e","d","3","2">> } -> sInt
          [] k \in { <<"i","n","t","6","4">>, <<"u","i","n","t","6","4">>, <<"s","i","n","t","6","4">>, <<"f","i","x","e","d","6","4">>, <<"s","f","i","x","e","d","6","4">> } -> sLong
          [] k = <<"b","o","o","l">> -> sBoolean
          [] k = <<"s","t","r","i","n","g">> -> sString
          [] OTHER -> sByteArray]

\* Generator.convertTypeName
convertTypeName(name) ==
    IF StartsWith(name, <<".">>)
    THEN LET parts == Split(name, <<".">>)
         IN IF swift
            THEN LET prefix == IF Len(parts) >= 2 THEN parts[2] ELSE Err
                     joined == Concat(SubSeq(parts, 3, Len(parts)))
                 IN IF prefix = Err \/ typeNameCase(prefix) = Err
                       \/ typeNameCase(joined) = Err
                    THEN Err
                    ELSE typeNameCase(prefix) \o typeNameCase(joined)
            ELSE typeNameCase(Join(<<".">>, SubSeq(parts, 3, Len(parts))))
    ELSE typeNameCase(name)

\* Generator.getBuiltInTypeByNumber; a negative index counts from the end of
\* the tuple, and one below -len raises IndexError
getBuiltInTypeByNumber(number) ==
    IF number >= Len(knownTypes) THEN None
    ELSE IF number >= 0 THEN knownTypes[number + 1]
    ELSE IF number >= 0 - Len(knownTypes) THEN knownTypes[Len(knownTypes) + number + 1]
    ELSE Err

\* Generator.getBuiltInTypeByName: the dict is called like a function, which
\* raises TypeError for every argument
getBuiltInTypeByName(name) == Err

\* Generator.getTypeName
getTypeName(number, typeName) ==
    LET q == <<"?">>
        fallThrough ==
            IF typeName = None THEN sAny \o q
            ELSE LET n == getBuiltInTypeByName(typeName)
                 IN IF n = Err THEN Err
                    ELSE IF n # None THEN n
                    ELSE IF convertTypeName(typeName) = Err THEN Err
                    ELSE convertTypeName(typeName) \o q
    IN IF number = TYPE_MESSAGE
       THEN IF typeName = None \/ convertTypeName(typeName) = Err THEN Err
            ELSE convertTypeName(typeName) \o q
       ELSE IF number = TYPE_ENUM
       THEN IF typeName = None THEN Err ELSE convertTypeName(typeName)
       ELSE IF number # 0
       THEN LET n == getBuiltInTypeByNumber(number)
            IN IF n = Err THEN Err
               ELSE IF n # None THEN n
               ELSE fallThrough
       ELSE fallThrough

\* Generator.typeIsBuiltIn
typeIsBuiltIn(number, typeName) ==
    LET fallThrough ==
            IF typeName = None THEN True
            ELSE LET n == getBuiltInTypeByName(typeName)
                 IN IF n = Err THEN Err
                    ELSE IF n # None THEN True
                    ELSE False
    IN IF number = TYPE_MESSAGE THEN False
       ELSE IF number = TYPE_ENUM THEN False
       ELSE IF number # 0
       THEN LET n == getBuiltInTypeByNumber(number)
            IN IF n = Err THEN Err
               ELSE IF n # None THEN True
               ELSE fallThrough
       ELSE fallThrough

(***************************************************************************)
(* Hooks of the data-class target (KtDataGenerator)                        *)
(***************************************************************************)
Digits == <<"0","1","2","3","4","5","6","7","8","9">>

\* "%d" % n
RECURSIVE NatToStr(_)
NatToStr(n) ==
    IF n < 10 THEN <<Digits[n + 1]>>
    ELSE NatToStr(n \div 10) \o <<Digits[(n % 10) + 1]>>
IntToStr(n) == IF n < 0 THEN <<"-">> \o NatToStr(0 - n) ELSE NatToStr(n)

\* "    " * indentationLevel
Indent(indentationLevel) == [i \in 1..(4 * indentationLevel) |-> " "]

\* The result of a call that returns lines: ok is FALSE when it raised
Lines(ls, cs) == [ok |-> TRUE, lines |-> ls, calls |-> cs]
Raised(ls, cs) == [ok |-> FALSE, lines |-> ls, calls |-> cs]

\* One entry of the log of hook calls, with the arguments the engine passed
Call(hook, prefix, name, indentationLevel) ==
    [hook |-> hook, prefix |-> prefix, name |-> name, level |-> indentationLevel]

\* KtDataGenerator.processEnum
processEnum(prefix, enum, indentationLevel) ==
    LET indent == Indent(indentationLevel)
        indent1 == indent \o Indent(1)
        indent2 == indent1 \o Indent(1)
        n == Len(enum.value)
        c == <<Call("processEnum", prefix, enum.name, indentationLevel)>>
    IN IF typeNameCase(enum.name) = Err THEN Raised(<<>>, c)
       ELSE Lines(
          << indent \o <<"enum class ">> \o typeNameCase(enum.name)
                    \o <<"(val value: Int) {">> >>
          \o [i \in 1..n |-> indent1 \o enumCase(enum.value[i].name) \o <<"(">>
                             \o IntToStr(enum.value[i].number) \o <<")", ",">>]
          \o << indent1 \o <<";">>,
                indent1 \o <<"companion object {">> >>
          \o [i \in 1..n |-> indent2 \o <<"const val ">>
                             \o enumCase(enum.value[i].name) \o <<"_VALUE = ">>
                             \o IntToStr(enum.value[i].number)]
          \o << <<>>,
                indent2 \o <<"infix fun from(value: Int) = ",
                             "values().first { it.value == value }">>,
                SubSeq(indent2, 5, Len(indent2)) \o <<"}">>,
                SubSeq(indent2, 9, Len(indent2)) \o <<"}">> >>,
          c)

\* KtDataGenerator.messageOpening
messageOpening(prefix, msg, name, indentationLevel) ==
    Lines(<< Indent(indentationLevel) \o <<"data class ">> \o name \o <<"(">> >>,
          <<Call("messageOpening", prefix, msg.name, indentationLevel)>>)

\* KtDataGenerator.messageClosing
messageClosing(msg, name, indentationLevel) ==
    Lines(<< Indent(indentationLevel) \o <<")">> >>,
          <<Call("messageClosing", None, msg.name, indentationLevel)>>)

sList == <<"L","i","s","t","<">>
sFrom0 == <<" ","f","r","o","m"," ","0">>

\* The branch chain of processField with the enum test first, so that an enum
\* whose name is a built-in name still gets the member lookup
defaultForEnumFirst(field, typeName) ==
    IF Len(field.default_value) # 0
    THEN IF typeName = sString
         THEN <<"\"">> \o field.default_value \o <<"\"">>
         ELSE field.default_value
    ELSE IF field.type = TYPE_ENUM THEN typeName \o sFrom0
    ELSE IF typeName = sString THEN <<"\"", "\"">>
    ELSE IF typeName = sBoolean THEN <<"f","a","l","s","e">>
    ELSE IF typeName = sInt THEN <<"0">>
    ELSE IF typeName = sLong THEN <<"0","L">>
    ELSE IF typeName = sDouble THEN <<"0",".","0">>
    ELSE IF typeName = sFloat THEN <<"0",".","0","F">>
    ELSE IF typeName = sByteArray THEN <<"ByteArray(size = 0)">>
    ELSE <<"n","u","l","l">>

\* KtDataGenerator.processField, lines 64-85: the default of a field that is
\* not repeated; typeName is the result of getTypeName
defaultFor(field, typeName) ==
    IF Len(field.default_value) # 0
    THEN IF typeName = sString
         THEN <<"\"">> \o field.default_value \o <<"\"">>
         ELSE field.default_value
    ELSE IF typeName = sString THEN <<"\"", "\"">>
    ELSE IF typeName = sBoolean THEN <<"f","a","l","s","e">>
    ELSE IF typeName = sInt THEN <<"0">>
    ELSE IF typeName = sLong THEN <<"0","L">>
    ELSE IF typeName = sDouble THEN <<"0",".","0">>
    ELSE IF typeName = sFloat THEN <<"0",".","0","F">>
    ELSE IF typeName = sByteArray THEN <<"ByteArray(size = 0)">>
    ELSE IF field.type = TYPE_ENUM THEN typeName \o sFrom0
    ELSE <<"n","u","l","l">>

\* KtDataGenerator.processField, lines 58-85: the emitted type and default
fieldTypeAndDefault(field) ==
    CHOOSE r \in
      {IF typeName = Err THEN [ok |-> FALSE, typeName |-> Err, default |-> Err]
       ELSE IF field.label = LABEL_REPEATED
       THEN [ok |-> TRUE,
             typeName |-> sList \o (IF EndsWith(typeName, <<"?">>)
                                    THEN SubSeq(typeName, 1, Len(typeName) - 1)
                                    ELSE typeName) \o <<">">>,
             default |-> <<"emptyList()">>]
       ELSE [ok |-> TRUE, typeName |-> typeName,
             default |-> defaultFor(field, typeName)] :
       typeName \in {getTypeName(field.type, field.type_name)}} : TRUE

\* KtDataGenerator.processField
processField(msg, field, indentationLevel) ==
    LET c == <<Call("processField", None, field.name, indentationLevel)>>
    IN CHOOSE r \in
         {IF ~td.ok \/ propName = Err THEN Raised(<<>>, c)
          ELSE Lines(<< Indent(indentationLevel) \o <<"val ">> \o propName
                        \o <<":", " ">> \o td.typeName \o <<" ", "=", " ">>
                        \o td.default \o <<",">> >>, c) :
          td \in {fieldTypeAndDefault(field)},
          propName \in {memberCase(field.name)}} : TRUE

\* protoc-gen-kmmdata.py, KtDataGenerator.processField, lines 58-73: the
\* default of a field that is not repeated
defaultForKmmdata(field, typeName) ==
    IF Len(field.default_value) # 0
    THEN IF typeName = sString
         THEN <<"\"">> \o field.default_value \o <<"\"">>
         ELSE field.default_value
    ELSE IF typeName = sString THEN <<"\"", "\"">>
    ELSE IF typeName = sBoolean THEN <<"F","a","l","s","e">>
    ELSE IF typeName \in {sInt, sLong, sFloat, sDouble} THEN <<"0">>
    ELSE IF typeName = sByteArray THEN <<"ByteArray(size = 0)">>
    ELSE IF field.type = TYPE_ENUM THEN typeName \o sFrom0
    ELSE <<"n","u","l","l">>

\* protoc-gen-kmmdata.py, KtDataGenerator.processField: five spaces a level,
\* the field name as it is in the schema
processFieldKmmdata(msg, field, indentationLevel) ==
    LET c == <<Call("processField", None, field.name, indentationLevel)>>
    IN CHOOSE r \in
         {IF typeName = Err THEN Raised(<<>>, c)
          ELSE Lines(<< [i \in 1..(5 * indentationLevel) |-> " "]
                        \o <<"val ">> \o field.name \o <<":", " ">>
                        \o (IF field.label = LABEL_REPEATED
                            THEN sList \o (IF EndsWith(typeName, <<"?">>)
                                           THEN SubSeq(typeName, 1, Len(typeName) - 1)
                                           ELSE typeName) \o <<">">>
                            ELSE typeName)
                        \o <<" ", "=", " ">>
                        \o (IF field.label = LABEL_REPEATED THEN <<"emptyList()">>
                            ELSE defaultForKmmdata(field, typeName))
                        \o <<",">> >>, c) :
          typeName \in {getTypeName(field.type, field.type_name)}} : TRUE

(***************************************************************************)
(* Hooks of the converter target (protoc-gen-kmm-jvm-conv.py)              *)
(***************************************************************************)
\* ToJVMGenerator.processField: portable data class to native class
processFieldToJVM(msg, field, indentationLevel) ==
    LET c == <<Call("processField", None, field.name, indentationLevel)>>
        isList == field.label = LABEL_REPEATED
    IN CHOOSE r \in
         {IF fieldName = Err \/ typeName = Err \/ builtIn = Err THEN Raised(<<>>, c)
          ELSE LET convOpen == IF isList /\ builtIn # True THEN <<>>
                               ELSE IF builtIn = True THEN <<>>
                               ELSE typeName \o <<".","f","r","o","m","D","a","t","a","(">>
                   convClose == IF isList /\ builtIn # True
                                THEN <<".","m","a","p"," ","{"," ","i","t",".","f","r","o","m","D","a","t","a","(",")"," ","}">>
                                ELSE IF builtIn = True THEN <<>>
                                ELSE <<")">>
               IN Lines(<< IF ~isList /\ EndsWith(typeName, <<"?">>)
                           THEN <<" "," "," "," "," "," "," "," ","d","a","t","a",".">> \o fieldName
                                \o <<"?",".","l","e","t"," ","{"," ","t","h","i","s",".">> \o fieldName \o <<" ","="," ">>
                                \o convOpen \o <<"i","t">> \o convClose \o <<" ","}">>
                           ELSE <<" "," "," "," "," "," "," "," ","t","h","i","s",".">> \o fieldName \o <<" ","="," ">>
                                \o convOpen \o <<"d","a","t","a",".">> \o fieldName
                                \o convClose >>, c) :
          fieldName \in {memberCase(field.name)},
          typeName \in {getTypeName(field.type, field.type_name)},
          builtIn \in {typeIsBuiltIn(field.type, field.type_name)}} : TRUE

\* FromJVMGenerator.processField: native class to portable data class
processFieldFromJVM(msg, field, indentationLevel) ==
    LET c == <<Call("processField", None, field.name, indentationLevel)>>
        isList == field.label = LABEL_REPEATED
    IN CHOOSE r \in
         {IF fieldName = Err \/ typeName = Err \/ builtIn = Err THEN Raised(<<>>, c)
          ELSE LET conv0 == IF isList /\ builtIn # True
                            THEN <<"m","a","p"," ","{"," ","i","t",".","t","o","D","a","t","a","(",")"," ","}">>
                            ELSE IF builtIn = True THEN <<>>
                            ELSE <<".","t","o","D","a","t","a","(",")">>
                   nullable == ~isList /\ EndsWith(typeName, <<"?">>)
                   orNull == IF nullable THEN <<"O","r","N","u","l","l">> ELSE <<>>
                   conv == IF nullable /\ Len(conv0) > 0 THEN <<"?">> \o conv0
                           ELSE conv0
               IN Lines(<< <<" "," "," "," "," "," "," "," ">> \o fieldName \o <<" ","="," ","t","h","i","s",".">>
                           \o fieldName \o orNull \o conv >>, c) :
          fieldName \in {memberCase(field.name)},
          typeName \in {getTypeName(field.type, field.type_name)},
          builtIn \in {typeIsBuiltIn(field.type, field.type_name)}} : TRUE

\* JvmConvGenerator.processEnum: the two adapters of an enum; namespace is
\* self.namespace
processEnumJvmConv(enum, namespace) ==
    LET typeName == typeNameCase(enum.name)
        c == <<Call("processEnum", None, enum.name, 0)>>
    IN IF typeName = Err THEN Raised(<<>>, c)
       ELSE Lines(<< <<"f","u","n"," ">> \o typeName \o <<".","C","o","m","p","a","n","i","o","n",".","f","r","o","m","D","a","t","a","(","d","a","t","a",":"," ">>
                        \o namespace \o <<".">> \o typeName \o <<")"," ","{">>,
                     <<" "," "," "," ","r","e","t","u","r","n"," ">> \o typeName \o <<".","f","o","r","V","a","l","u","e","(","d","a","t","a",".","v","a","l","u","e",")">>,
                     <<"}">>,
                     <<>>,
                     <<"f","u","n"," ">> \o typeName \o <<".","t","o","D","a","t","a","(",")",":"," ">>
                        \o namespace \o <<".">> \o typeName \o <<" ","{">>,
                     <<" "," "," "," ","r","e","t","u","r","n"," ">> \o namespace \o <<".">> \o typeName
                        \o <<" ","f","r","o","m"," ","t","h","i","s",".","v","a","l","u","e">>,
                     <<"}">> >>, c)

(***************************************************************************)
(* Traversal engine (Generator)                                            *)
(***************************************************************************)
\* Statement sequencing: b runs after a unless a raised
Then(a, b) ==
    CHOOSE r \in {IF ~x.ok THEN x
                  ELSE [ok |-> y.ok, lines |-> x.lines \o y.lines,
                        calls |-> x.calls \o y.calls] : x \in {a}, y \in {b}} : TRUE

\* A for loop whose body extends lines by rs[i].lines and then by sep; the
\* loop stops at the first body that raises
RECURSIVE Chain(_, _)
Chain(rs, sep) ==
    CHOOSE r \in {IF Len(x) = 0 THEN Lines(<<>>, <<>>)
                  ELSE IF ~x[1].ok THEN x[1]
                  ELSE Then(Lines(x[1].lines \o sep, x[1].calls),
                            Chain(Tail(x), sep)) : x \in {rs}} : TRUE

\* Generator.processMessage, lines 254-255
stripTrailingComma(lines) ==
    LET last == lines[Len(lines)]
    IN IF EndsWith(last, <<",">>)
       THEN [lines EXCEPT ![Len(lines)] = SubSeq(last, 1, Len(last) - 1)]
       ELSE lines

\* The level of the body handed on to the closing hook
closingLevelKept(indentationLevel) == indentationLevel

\* Generator.processMessage, line 256: indentationLevel -= 1
closingLevel(indentationLevel) == indentationLevel - 1

RECURSIVE processMessage(_, _, _)

\* processMessage with the field loop ahead of the nested declarations
processMessageFieldsFirst(prefix, msg, indentationLevel) ==
    LET name == typeNameCase(msg.name)
        level1 == indentationLevel + 1
        prefix1 == prefix \o <<".">> \o name
        opening == messageOpening(prefix, msg, name, indentationLevel)
        enums == Chain([i \in 1..Len(msg.enum_type) |->
                          processEnum(prefix1, msg.enum_type[i], level1)], << <<>> >>)
        nested == Chain([i \in 1..Len(msg.nested_type) |->
                          processMessage(prefix1 \o name, msg.nested_type[i], level1)],
                        << <<>> >>)
        fields == Chain([i \in 1..Len(msg.field) |->
                          processField(msg, msg.field[i], level1)], <<>>)
    IN IF name = Err THEN Raised(<<>>, <<>>)
       ELSE CHOOSE r \in
              {IF ~body.ok THEN body
               ELSE IF Len(body.lines) = 0 THEN Raised(<<>>, body.calls)
               ELSE Then(Lines(stripTrailingComma(body.lines), body.calls),
                         messageClosing(msg, name, closingLevel(level1))) :
               body \in {Then(opening, Then(fields, Then(enums, nested)))}} : TRUE

\* Generator.processMessage
processMessage(prefix, msg, indentationLevel) ==
    LET name == typeNameCase(msg.name)
        level1 == indentationLevel + 1
        prefix1 == prefix \o <<".">> \o name
        opening == messageOpening(prefix, msg, name, indentationLevel)
        enums == Chain([i \in 1..Len(msg.enum_type) |->
                          processEnum(prefix1, msg.enum_type[i], level1)], << <<>> >>)
        nested == Chain([i \in 1..Len(msg.nested_type) |->
                          processMessage(prefix1 \o name, msg.nested_type[i], level1)],
                        << <<>> >>)
        fields == Chain([i \in 1..Len(msg.field) |->
                          processField(msg, msg.field[i], level1)], <<>>)
    IN IF name = Err THEN Raised(<<>>, <<>>)
       ELSE CHOOSE r \in
              {IF ~body.ok THEN body
               ELSE IF Len(body.lines) = 0 THEN Raised(<<>>, body.calls)
               ELSE Then(Lines(stripTrailingComma(body.lines), body.calls),
                         messageClosing(msg, name, closingLevel(level1))) :
               body \in {Then(opening, Then(enums, Then(nested, fields)))}} : TRUE

\* dict.get(key, default)
Get(dict, key, default) == IF key \in DOMAIN dict THEN dict[key] ELSE default

sSharedModule == <<"s","h","a","r","e","d","_","m","o","d","u","l","e">>
sShared == <<"s","h","a","r","e","d">>
sKmmPackage == <<"k","m","m","_","p","a","c","k","a","g","e">>
sJavaPackage == <<"j","a","v","a","_","p","a","c","k","a","g","e">>
sKmm == <<".","k","m","m">>
sGrpc == <<"G","r","p","c">>
sClient == <<"C","l","i","e","n","t">>
sKt == <<".","k","t">>
sSwiftExt == <<".","s","w","i","f","t">>

\* Generator.getRole
getRole == <<>>

\* Generator.getClientVariety
getClientVariety == sClient

\* Generator.getDataHeader
getDataHeader(protoFile) ==
    Lines(IF swift
          THEN << <<"import ">> \o Get(parameters, sSharedModule, sShared), <<>> >>
          ELSE << <<"package ">> \o kmmPackage, <<>> >>,
          <<Call("getDataHeader", None, protoFile.name, 0)>>)

\* Generator.getDataFooter
getDataFooter(protoFile) ==
    Lines(<<>>, <<Call("getDataFooter", None, protoFile.name, 0)>>)

\* A naming that uses the package-based name in Kotlin too
getOutputFilenameForClassByPackage(protoName, className) ==
    IF typeNameCase(protoName) = Err THEN Err
    ELSE typeNameCase(protoName) \o <<"_">> \o className
         \o (IF swift THEN sSwiftExt ELSE sKt)

\* Generator.getOutputFilenameForClass
getOutputFilenameForClass(protoName, className) ==
    IF swift
    THEN IF typeNameCase(protoName) = Err THEN Err
         ELSE typeNameCase(protoName) \o <<"_">> \o className \o sSwiftExt
    ELSE className \o sKt

\* Generator.addResponseFile: the file appended to response.file
addResponseFile(protoName, className, content) ==
    [name |-> getOutputFilenameForClass(protoName, className),
     content |-> Join(<<"\n">>, content)]

\* The result of a call that adds files to the response
Files(fs, cs) == [ok |-> TRUE, files |-> fs, calls |-> cs]
RaisedF(fs, cs) == [ok |-> FALSE, files |-> fs, calls |-> cs]

ThenF(a, b) ==
    CHOOSE r \in {IF ~x.ok THEN x
                  ELSE [ok |-> y.ok, files |-> x.files \o y.files,
                        calls |-> x.calls \o y.calls] : x \in {a}, y \in {b}} : TRUE

RECURSIVE ChainF(_)
ChainF(rs) ==
    CHOOSE r \in {IF Len(x) = 0 THEN Files(<<>>, <<>>)
                  ELSE IF ~x[1].ok THEN x[1]
                  ELSE ThenF(x[1], ChainF(Tail(x))) : x \in {rs}} : TRUE

\* Generator.processMessagesAndEnums, the body of either loop when not swift:
\* header, declaration, footer, addResponseFile
declarationFile(protoFile, decl, rawName) ==
    CHOOSE r \in
      {IF ~content.ok \/ className = Err THEN RaisedF(<<>>, content.calls)
       ELSE Files(<<addResponseFile(protoFile.package, className \o getRole,
                                    content.lines)>>, content.calls) :
       content \in {Then(getDataHeader(protoFile),
                         Then(decl, getDataFooter(protoFile)))},
       className \in {convertTypeName(rawName)}} : TRUE

\* Generator.processMessagesAndEnums
processMessagesAndEnums(protoFile) ==
    LET indentationLevel == 0
    IN CHOOSE r \in
      {IF protoName = Err THEN RaisedF(<<>>, <<>>)
       ELSE IF swift
       THEN CHOOSE f \in
              {IF ~content.ok THEN RaisedF(<<>>, content.calls)
               ELSE Files(<<addResponseFile(protoFile.package, getRole,
                                            content.lines)>>, content.calls) :
               content \in {Then(getDataHeader(protoFile),
                               Then(Chain(enums, << <<>> >>),
                                 Then(Chain(msgs, << <<>> >>),
                                      getDataFooter(protoFile))))}} : TRUE
       ELSE ThenF(
              ChainF([i \in 1..Len(enums) |->
                        declarationFile(protoFile, enums[i], protoFile.enum_type[i].name)]),
              ChainF([i \in 1..Len(msgs) |->
                        declarationFile(protoFile, msgs[i], protoFile.message_type[i].name)])) :
       protoName \in {typeNameCase(protoFile.name)},
       enums \in {[i \in 1..Len(protoFile.enum_type) |->
                    IF typeNameCase(protoFile.name) = Err THEN Raised(<<>>, <<>>)
                    ELSE processEnum(typeNameCase(protoFile.name),
                                     protoFile.enum_type[i], indentationLevel)]},
       msgs \in {[i \in 1..Len(protoFile.message_type) |->
                    IF typeNameCase(protoFile.name) = Err THEN Raised(<<>>, <<>>)
                    ELSE processMessage(typeNameCase(protoFile.name),
                                        protoFile.message_type[i], indentationLevel)]}}
      : TRUE

\* Generator.getServiceName
getServiceName(protoFile, serv) ==
    IF typeNameCase(serv.name) = Err THEN Err
    ELSE IF swift
    THEN IF typeNameCase(protoFile.package) = Err THEN Err
         ELSE typeNameCase(protoFile.package) \o <<"_">> \o typeNameCase(serv.name)
    ELSE typeNameCase(serv.name)

\* Generator.getServiceImports
getServiceImports(protoFile, serv) ==
    LET h == getDataHeader(protoFile)
    IN IF swift
       THEN Lines(<< <<"import Foundation">>, <<"import GRPC">> >> \o h.lines, h.calls)
       ELSE h

\* Generator.getServiceHeader, with getServiceEntity and getServiceOpenBracket
getServiceHeader(protoFile, serv) ==
    LET imports == getServiceImports(protoFile, serv)
        servName == getServiceName(protoFile, serv)
        c == <<Call("getServiceHeader", None, serv.name, 0)>>
    IN IF servName = Err THEN Raised(<<>>, c)
       ELSE Lines(imports.lines \o << <<"class", " ">> \o servName \o sGrpc
                                      \o getClientVariety \o <<" ", "{">> >>,
                  c)

\* Generator.getSuspendKeyword
getSuspendKeyword == IF swift THEN <<>> ELSE <<"s","u","s","p","e","n","d"," ">>

\* Generator.getFuncKeyword
getFuncKeyword == IF swift THEN <<"f","u","n","c"," ">> ELSE <<"f","u","n"," ">>

\* Generator.getReturnSymbol
getReturnSymbol == IF swift THEN <<" ","-",">"," ">> ELSE <<":"," ">>

\* Generator.getReturnVoid
getReturnVoid == <<"-",">">> \o (IF swift THEN <<"V","o","i","d">> ELSE <<"U","n","i","t">>)

\* Generator.convertClientStreamingInput
convertClientStreamingInput(typeName) == <<"F","l","o","w","<">> \o typeName \o <<">">>

\* Generator.getStreamerInterfaceName
getStreamerInterfaceName(protoFile, serv, typeName) ==
    IF swift THEN <<"G","r","p","c","I","o","s","C","l","i","e","n","t","H","e","l","p","e","r","C","l","i","e","n","t","S","t","r","e","a","m","e","r">>
    ELSE <<"G","r","p","c","I","o","s","C","l","i","e","n","t","H","e","l","p","e","r",".","C","l","i","e","n","t","S","t","r","e","a","m","e","r","<">>
         \o (IF EndsWith(typeName, <<"?">>)
             THEN SubSeq(typeName, 1, Len(typeName) - 1) ELSE typeName)
         \o <<">">>

\* "    " + l for every line l
Indented(ls) == [i \in 1..Len(ls) |-> Indent(1) \o ls[i]]

\* Generator.getResultCallback: the lines, or Err
getResultCallback(protoFile, method) ==
    LET typeName == convertTypeName(method.output_type)
    IN IF typeName = Err THEN Err
       ELSE << <<"r","e","s","u","l","t",":"," ">> \o (IF swift THEN <<"@","e","s","c","a","p","i","n","g"," ">> ELSE <<>>)
               \o <<"(">> \o typeName
               \o (IF EndsWith(typeName, <<"?">>) THEN <<>> ELSE <<"?">>)
               \o <<","," ","S","t","r","i","n","g","?",")">> \o getReturnVoid >>

\* Generator.getResultCallbackInLieuOfReturn
getResultCallbackInLieuOfReturn(protoFile, method) ==
    LET cb == getResultCallback(protoFile, method)
    IN IF cb = Err THEN Err
       ELSE << <<",">> >> \o Indented(cb) \o << <<")">> >>

\* getReturn that never forwards to the result callback
getReturnWithoutCallback(protoFile, method) ==
    LET typeName == convertTypeName(method.output_type)
    IN IF typeName = Err THEN Err
       ELSE << <<>>,
               <<")">> \o getReturnSymbol
               \o (IF method.server_streaming
                   THEN <<"F","l","o","w","<">> \o typeName \o <<">">> ELSE typeName) >>

\* Generator.getReturn
getReturn(protoFile, method) ==
    IF swift THEN getResultCallbackInLieuOfReturn(protoFile, method)
    ELSE LET typeName == convertTypeName(method.output_type)
         IN IF typeName = Err THEN Err
            ELSE << <<>>,
                    <<")">> \o getReturnSymbol
                    \o (IF method.server_streaming
                        THEN <<"F","l","o","w","<">> \o typeName \o <<">">> ELSE typeName) >>

\* Generator.getMethodSignature: the lines, or Err
getMethodSignature(protoFile, serv, method, withCallbacks) ==
    LET callbacks == swift \/ withCallbacks
        suspend == IF method.server_streaming THEN <<>> ELSE getSuspendKeyword
        inputType == convertTypeName(method.input_type)
        cb == getResultCallback(protoFile, method)
        ret == getReturn(protoFile, method)
        name == memberCase(method.name)
    IN IF inputType = Err THEN Err
       ELSE IF method.client_streaming /\ callbacks
       THEN IF cb = Err \/ name = Err THEN Err
            ELSE Indented(
                   << suspend \o getFuncKeyword \o name \o <<"(">> >>
                   \o Indented(cb)
                   \o << <<")">> \o getReturnSymbol
                          \o getStreamerInterfaceName(protoFile, serv, inputType) >>)
       ELSE IF ret = Err \/ name = Err THEN Err
            ELSE Indented(
                   << suspend \o getFuncKeyword \o name \o <<"(">> >>
                   \o << <<" "," "," "," ","r","e","q","u","e","s","t",":"," ">>
                          \o (IF method.client_streaming
                              THEN convertClientStreamingInput(inputType)
                              ELSE inputType)
                          \o ret[1] >>
                   \o Tail(ret))

\* Generator.getServiceMethod
getServiceMethod(protoFile, serv, method) ==
    Lines(<<>>, <<Call("getServiceMethod", None, method.name, 0)>>)

\* Generator.getServiceFooter
getServiceFooter(protoFile, serv) ==
    Lines(<< <<"}">> >>, <<Call("getServiceFooter", None, serv.name, 0)>>)

\* processService with the footer ahead of the methods
processServiceFooterFirst(protoFile, serv) ==
    Then(getServiceHeader(protoFile, serv),
      Then(getServiceFooter(protoFile, serv),
           Chain([i \in 1..Len(serv.method) |->
                    getServiceMethod(protoFile, serv, serv.method[i])], <<>>)))

\* Generator.processService
processService(protoFile, serv) ==
    Then(getServiceHeader(protoFile, serv),
      Then(Chain([i \in 1..Len(serv.method) |->
                    getServiceMethod(protoFile, serv, serv.method[i])], <<>>),
           getServiceFooter(protoFile, serv)))

\* Generator.processServices
processServices(protoFile) ==
    ChainF([i \in 1..Len(protoFile.service) |->
        CHOOSE r \in
          {IF ~content.ok \/ typeNameCase(serv.name) = Err
           THEN RaisedF(<<>>, content.calls)
           ELSE Files(<<addResponseFile(protoFile.package,
                            typeNameCase(serv.name) \o sGrpc \o getClientVariety,
                            content.lines)>>, content.calls) :
           serv \in {protoFile.service[i]},
           content \in {processService(protoFile, protoFile.service[i])}} : TRUE])

\* dict(pairs): a later pair with the same key replaces an earlier one
MakeDict(pairs) ==
    [k \in {pairs[i][1] : i \in 1..Len(pairs)} |->
        LET last == CHOOSE i \in 1..Len(pairs) :
                        /\ pairs[i][1] = k
                        /\ \A j \in (i+1)..Len(pairs) : pairs[j][1] # k
        IN pairs[last][2]]

EmptyDict == MakeDict(<<>>)

\* Values that are not dicts are one-key dicts no string can be a key of
ErrDict == MakeDict(<< <<Err, Err>> >>)
UnsetDict == MakeDict(<< <<Unset, Unset>> >>)

\* Generator.loadParameters: the new self.parameters, or ErrDict when p[1] raises
loadParameters(request) ==
    IF Len(request.parameter) > 0
    THEN LET ps == Split(request.parameter, <<",">>)
             kv == [i \in 1..Len(ps) |-> Split(ps[i], <<"=">>)]
         IN IF \E i \in 1..Len(kv) : Len(kv[i]) < 2 THEN ErrDict
            ELSE MakeDict([i \in 1..Len(kv) |-> <<kv[i][1], kv[i][2]>>])
    ELSE EmptyDict

\* loadOptions that updates the option map of the previous file in place
parseOptionsKeepingOld(text, old) ==
    LET lines == Split(Strip(text), <<"\n">>)
        opts == [i \in 1..Len(lines) |-> Split(lines[i], <<":", " ">>)]
        new == MakeDict([i \in 1..Len(opts) |->
                    <<opts[i][1], RemoveChar(opts[i][2], "\"")>>])
    IN IF \E i \in 1..Len(opts) : Len(opts[i]) < 2 THEN ErrDict
       ELSE IF old = UnsetDict THEN new
       ELSE [k \in (DOMAIN old) \cup (DOMAIN new) |->
                IF k \in DOMAIN new THEN new[k] ELSE old[k]]

\* Generator.loadOptions, lines 96-99: the new self.options, or ErrDict when
\* i[1] raises; old is the option map before the call
parseOptions(text, old) ==
    LET lines == Split(Strip(text), <<"\n">>)
        opts == [i \in 1..Len(lines) |-> Split(lines[i], <<":", " ">>)]
    IN IF \E i \in 1..Len(opts) : Len(opts[i]) < 2 THEN ErrDict
       ELSE MakeDict([i \in 1..Len(opts) |->
                <<opts[i][1], RemoveChar(opts[i][2], "\"")>>])

\* Generator.loadOptions: the attributes after the call; ok is FALSE when it
\* raised, and then the attributes assigned before the raise keep their new
\* value
loadOptions(protoFile) ==
    LET pn == typeNameCase(protoFile.package)
        opts == parseOptions(protoFile.options, options)
        cur == [ok |-> FALSE, packageName |-> packageName, options |-> options,
                javaPackage |-> javaPackage, kmmPackage |-> kmmPackage]
    IN IF pn = Err THEN cur
       ELSE IF opts = ErrDict THEN [cur EXCEPT !.packageName = pn]
       ELSE IF swift THEN [cur EXCEPT !.ok = TRUE, !.packageName = pn, !.options = opts]
       ELSE IF sJavaPackage \notin DOMAIN opts
       THEN [cur EXCEPT !.packageName = pn, !.options = opts]
       ELSE [ok |-> TRUE, packageName |-> pn, options |-> opts,
             javaPackage |-> opts[sJavaPackage],
             kmmPackage |-> Get(parameters, sKmmPackage, opts[sJavaPackage] \o sKmm)]

(***************************************************************************)
(* Descriptors; the label of a field that is not repeated is 1             *)
(***************************************************************************)
EnumValue(name, number) == [name |-> name, number |-> number]
Enum(name, value) == [name |-> name, value |-> value]
Field(name, type, type_name, label, default_value) ==
    [name |-> name, type |-> type, type_name |-> type_name, label |-> label,
     default_value |-> default_value]
Message(name, enum_type, nested_type, field) ==
    [name |-> name, enum_type |-> enum_type, nested_type |-> nested_type,
     field |-> field]
Method(name, input_type, output_type, client_streaming, server_streaming) ==
    [name |-> name, input_type |-> input_type, output_type |-> output_type,
     client_streaming |-> client_streaming, server_streaming |-> server_streaming]
Service(name, method) == [name |-> name, method |-> method]
ProtoFile(name, package, opts, enum_type, message_type, service) ==
    [name |-> name, package |-> package, options |-> opts,
     enum_type |-> enum_type, message_type |-> message_type, service |-> service]

\* enum Color { RED = 0; GREEN = 1; }
eColor == Enum(<<"C","o","l","o","r">>, <<EnumValue(<<"R","E","D">>, 0), EnumValue(<<"G","R","E","E","N">>, 1)>>)
\* enum Kind { A = 1; B = 2; }   no member has the value 0
eKind == Enum(<<"K","i","n","d">>, <<EnumValue(<<"A">>, 1), EnumValue(<<"B">>, 2)>>)
\* enum foo_bar { X = 0; }
eFooBar == Enum(<<"f","o","o","_","b","a","r">>, <<EnumValue(<<"X">>, 0)>>)
\* enum Int { ONE = 1; }   named like a built-in type, no member 0
eInt == Enum(<<"I","n","t">>, <<EnumValue(<<"O","N","E">>, 1)>>)

\* message Point { int32 x; int32 y; }
mPoint == Message(<<"P","o","i","n","t">>, <<>>, <<>>,
    << Field(<<"x">>, 5, <<>>, 1, <<>>),
       Field(<<"y">>, 5, <<>>, 1, <<>>) >>)
\* message Leaf { }
mLeaf == Message(<<"L","e","a","f">>, <<>>, <<>>, <<>>)
\* message Inner { message Leaf { }  string v; Leaf leaf; }
mInner == Message(<<"I","n","n","e","r">>, <<>>, <<mLeaf>>,
    << Field(<<"v">>, 9, <<>>, 1, <<>>),
       Field(<<"l","e","a","f">>, TYPE_MESSAGE, <<".","p","k","g",".","O","u","t","e","r",".","I","n","n","e","r",".","L","e","a","f">>, 1, <<>>) >>)
\* message Outer { enum Kind; message Inner; Kind kind; Inner inner;
\*                 repeated string tags; int64 count = 7; }
mOuter == Message(<<"O","u","t","e","r">>, <<eKind>>, <<mInner>>,
    << Field(<<"k","i","n","d">>, TYPE_ENUM, <<".","p","k","g",".","O","u","t","e","r",".","K","i","n","d">>, 1, <<>>),
       Field(<<"i","n","n","e","r">>, TYPE_MESSAGE, <<".","p","k","g",".","O","u","t","e","r",".","I","n","n","e","r">>, 1, <<>>),
       Field(<<"t","a","g","s">>, 9, <<>>, LABEL_REPEATED, <<>>),
       Field(<<"c","o","u","n","t">>, 3, <<>>, 1, <<"7">>) >>)
\* message FooBar { Int n; Color c; bytes data = "a,"; }
mFooBar == Message(<<"F","o","o","B","a","r">>, <<>>, <<>>,
    << Field(<<"n">>, TYPE_ENUM, <<".","o","t","h","e","r","_","p","k","g",".","I","n","t">>, 1, <<>>),
       Field(<<"c">>, TYPE_ENUM, <<".","o","t","h","e","r","_","p","k","g",".","C","o","l","o","r">>, 1, <<>>),
       Field(<<"d","a","t","a">>, 12, <<>>, 1, <<"a",",">>) >>)
\* message Grp { optional group G = 1 { } }
mGrp == Message(<<"G","r","p">>, <<>>, <<>>,
    << Field(<<"g">>, TYPE_GROUP, <<".","o","t","h","e","r","_","p","k","g",".","G","r","p",".","G">>, 1, <<>>) >>)

\* service Greeter { rpc say_hello(Point) returns (Point);
\*                   rpc chat(stream Point) returns (stream Point); }
sGreeter == Service(<<"G","r","e","e","t","e","r">>,
    << Method(<<"s","a","y","_","h","e","l","l","o">>, <<".","p","k","g",".","P","o","i","n","t">>, <<".","p","k","g",".","P","o","i","n","t">>, FALSE, FALSE),
       Method(<<"c","h","a","t">>, <<".","p","k","g",".","P","o","i","n","t">>, <<".","p","k","g",".","P","o","i","n","t">>, TRUE, TRUE) >>)

fileA == ProtoFile(<<"a",".","p","r","o","t","o">>, <<"p","k","g">>, <<"j","a","v","a","_","p","a","c","k","a","g","e",":"," ","\"","c","o","m",".","a","\"","\n">>, <<eColor>>, <<mPoint>>, <<>>)
fileB == ProtoFile(<<"b",".","p","r","o","t","o">>, <<"p","k","g">>, <<"j","a","v","a","_","p","a","c","k","a","g","e",":"," ","\"","c","o","m",".","b","\"","\n","j","a","v","a","_","o","u","t","e","r","_","c","l","a","s","s","n","a","m","e",":"," ","\"","B","\"","\n">>, <<>>, <<mOuter>>, <<sGreeter>>)
fileC == ProtoFile(<<"c",".","p","r","o","t","o">>, <<"o","t","h","e","r","_","p","k","g">>, <<"j","a","v","a","_","p","a","c","k","a","g","e",":"," ","\"","c","o","m",".","c","\"","\n">>, <<eFooBar, eInt, eColor>>, <<mFooBar, mPoint>>, <<>>)
\* no option block
fileD == ProtoFile(<<"d",".","p","r","o","t","o">>, <<"p","k","g">>, <<>>, <<eColor>>, <<>>, <<>>)
\* an option block without java_package
fileE == ProtoFile(<<"e",".","p","r","o","t","o">>, <<"e">>, <<"g","o","_","p","a","c","k","a","g","e",":"," ","\"","x","\"","\n">>, <<eColor>>, <<>>, <<>>)
\* a message with a group field
fileG == ProtoFile(<<"g",".","p","r","o","t","o">>, <<"o","t","h","e","r","_","p","k","g">>, <<"j","a","v","a","_","p","a","c","k","a","g","e",":"," ","\"","c","o","m",".","g","\"","\n">>, <<eKind>>, <<mGrp>>, <<>>)

FilePool == {fileA, fileB, fileC, fileD, fileE, fileG}

ParameterPool == { <<>>, <<"k","m","m","_","p","a","c","k","a","g","e","=","k",".","m">>, <<"s","h","a","r","e","d","_","m","o","d","u","l","e","=","m",",","k","m","m","_","p","a","c","k","a","g","e","=","k">>, <<"f","l","a","g">> }

SeqsUpTo(S, n) == UNION {[1..k -> S] : k \in 0..n}

\* A request names each schema file once
Requests ==
    {[parameter |-> p, proto_file |-> fs] :
        p \in ParameterPool,
        fs \in {s \in SeqsUpTo(FilePool, MaxFiles) :
                    \A i, j \in 1..Len(s) : i # j => s[i] # s[j]}}

(***************************************************************************)
(* The run of the plug-in: Generator.runOnStdinAndStdout                   *)
(***************************************************************************)
ProbeIdle ==
    /\ fnName = "none"
    /\ fnIn = <<>>
    /\ fnOut = <<>>

Init ==
    /\ swift \in BOOLEAN
    /\ req \in Requests
    /\ parameters = UnsetDict
    /\ options = UnsetDict
    /\ packageName = Unset
    /\ javaPackage = Unset
    /\ kmmPackage = Unset
    /\ response = <<>>
    /\ stdout = <<>>
    /\ pc = "loadParameters"
    /\ fileIdx = 1
    /\ calls = <<>>
    /\ ProbeIdle

\* where process goes after file k: the next file, or back to the caller
NextPc(k) == IF k <= Len(req.proto_file) THEN "loadOptions" ELSE "serialize"

\* Generator.process, line 72
LoadParameters ==
    /\ pc = "loadParameters"
    /\ \E ps \in {loadParameters(req)} :
          /\ parameters' = (IF ps = ErrDict THEN parameters ELSE ps)
          /\ pc' = (IF ps = ErrDict THEN "aborted" ELSE NextPc(1))
    /\ UNCHANGED <<swift, req, options, packageName, javaPackage, kmmPackage,
                   response, stdout, fileIdx, calls>>
    /\ UNCHANGED probeVars

\* Generator.processProtoFile, line 89
LoadOptions ==
    /\ pc = "loadOptions"
    /\ \E r \in {loadOptions(req.proto_file[fileIdx])} :
          /\ packageName' = r.packageName
          /\ options' = r.options
          /\ javaPackage' = r.javaPackage
          /\ kmmPackage' = r.kmmPackage
          /\ pc' = (IF r.ok THEN "processMessagesAndEnums" ELSE "aborted")
    /\ UNCHANGED <<swift, req, parameters, response, stdout, fileIdx, calls>>
    /\ UNCHANGED probeVars

\* Generator.processProtoFile, line 90
ProcessMessagesAndEnums ==
    /\ pc = "processMessagesAndEnums"
    /\ \E r \in {processMessagesAndEnums(req.proto_file[fileIdx])} :
          /\ response' = response \o r.files
          /\ calls' = calls \o r.calls
          /\ pc' = (IF r.ok THEN "processServices" ELSE "aborted")
    /\ UNCHANGED <<swift, req, parameters, options, packageName, javaPackage,
                   kmmPackage, stdout, fileIdx>>
    /\ UNCHANGED probeVars

\* Generator.processProtoFile, line 91, and the step of the loop of process
ProcessServices ==
    /\ pc = "processServices"
    /\ \E r \in {processServices(req.proto_file[fileIdx])} :
          /\ response' = response \o r.files
          /\ calls' = calls \o r.calls
          /\ pc' = (IF r.ok THEN NextPc(fileIdx + 1) ELSE "aborted")
          /\ fileIdx' = (IF r.ok THEN fileIdx + 1 ELSE fileIdx)
    /\ UNCHANGED <<swift, req, parameters, options, packageName, javaPackage,
                   kmmPackage, stdout>>
    /\ UNCHANGED probeVars

\* A runner that writes whatever response it holds, also after a failure
MayWriteAfterFailure == pc \in {"serialize", "aborted"} /\ stdout = <<>>

\* Generator.runOnStdinAndStdout, lines 60-62: the write is reached only when
\* process returned
MayWrite == pc = "serialize"

\* Generator.runOnStdinAndStdout, lines 61-62
WriteResponse ==
    /\ MayWrite
    /\ stdout' = stdout \o <<response>>
    /\ pc' = "done"
    /\ UNCHANGED <<swift, req, parameters, options, packageName, javaPackage,
                   kmmPackage, response, fileIdx, calls>>
    /\ UNCHANGED probeVars

Next ==
    \/ LoadParameters
    \/ LoadOptions
    \/ ProcessMessagesAndEnums
    \/ ProcessServices
    \/ WriteResponse

Spec == Init /\ [][Next]_vars

(***************************************************************************)
(* Generator.process called again on the same Generator object             *)
(***************************************************************************)
RunEnded == pc \in {"done", "aborted"}

\* A caller that hands the response of the run before to the next run
KeptResponse == response

\* Generator.runOnStdinAndStdout, line 59: every run gets a response of its own
NewResponse == <<>>

\* The requests of a run in between: one schema file, any parameter string
OtherRequests ==
    {[parameter |-> p, proto_file |-> <<f>>] : p \in ParameterPool, f \in FilePool}

\* The first run has ended; process is called with another request.  The
\* first request and its outcome are kept in fnIn and fnOut.
ProcessOther ==
    /\ RunEnded
    /\ fnName = "none"
    /\ fnName' = "other"
    /\ fnIn' = req
    /\ fnOut' = [response |-> response, pc |-> pc]
    /\ req' \in OtherRequests \ {req}
    /\ response' = NewResponse
    /\ pc' = "loadParameters"
    /\ fileIdx' = 1
    /\ calls' = <<>>
    /\ UNCHANGED <<swift, parameters, options, packageName, javaPackage,
                   kmmPackage, stdout>>

\* process is called with the first request again, straight after the first
\* run or after the run in between; the attributes of the Generator are the
\* ones the run before left
ProcessAgain ==
    /\ RunEnded
    /\ fnName \in {"none", "other"}
    /\ fnName' = (IF fnName = "none" THEN "again" ELSE "againAfterOther")
    /\ fnIn' = (IF fnName = "none" THEN req ELSE fnIn)
    /\ fnOut' = (IF fnName = "none" THEN [response |-> response, pc |-> pc]
                 ELSE fnOut)
    /\ req' = (IF fnName = "none" THEN req ELSE fnIn)
    /\ response' = NewResponse
    /\ pc' = "loadParameters"
    /\ fileIdx' = 1
    /\ calls' = <<>>
    /\ UNCHANGED <<swift, parameters, options, packageName, javaPackage,
                   kmmPackage, stdout>>

NextAgain ==
    \/ LoadParameters
    \/ LoadOptions
    \/ ProcessMessagesAndEnums
    \/ ProcessServices
    \/ WriteResponse
    \/ ProcessOther
    \/ ProcessAgain

SpecAgain == Init /\ [][NextAgain]_vars

(***************************************************************************)
(* The pure functions, applied to inputs drawn from bounded sets           *)
(***************************************************************************)
EngineIdle ==
    /\ req = [parameter |-> <<>>, proto_file |-> <<>>]
    /\ parameters = EmptyDict
    /\ options = UnsetDict
    /\ packageName = Unset
    /\ javaPackage = Unset
    /\ kmmPackage = Unset
    /\ response = <<>>
    /\ stdout = <<>>
    /\ pc = "idle"
    /\ fileIdx = 1
    /\ calls = <<>>

NameChars == {"a", "b", "B", "_"}

CaseInputs ==
    (SeqsUpTo(NameChars, MaxNameLen) \ {<<>>}) \cup {<<"f","o","o","_","b","a","r">>, <<"f","o","o">>, <<"f","o","o","B","a","r","_","b","a","z","Q","u","x">>,
        <<"u","s","e","r","_","i","d">>, <<"u","s","e","r","I","d">>, <<"i","d">>, <<"I","d">>,
        <<"f","o","o","_","i","d","_","b","a","r">>, <<"i","d","_","f","o","o">>, <<"u","s","e","r","_","I","D">>}

InitCase ==
    /\ swift = FALSE
    /\ EngineIdle
    /\ fnName = "none"
    /\ fnIn \in CaseInputs
    /\ fnOut = <<>>

ApplyTypeNameCase ==
    /\ pc = "idle"
    /\ fnName = "none"
    /\ fnName' = "typeNameCase"
    /\ fnOut' = typeNameCase(fnIn)
    /\ UNCHANGED <<fnIn>>
    /\ UNCHANGED engineVars

ApplyMemberCase ==
    /\ pc = "idle"
    /\ fnName = "none"
    /\ fnName' = "memberCase"
    /\ fnOut' = memberCase(fnIn)
    /\ UNCHANGED <<fnIn>>
    /\ UNCHANGED engineVars

ApplySwiftMemberCase ==
    /\ pc = "idle"
    /\ fnName = "none"
    /\ fnName' = "swiftMemberCase"
    /\ fnOut' = swiftMemberCase(fnIn)
    /\ UNCHANGED <<fnIn>>
    /\ UNCHANGED engineVars

NextCase == ApplyTypeNameCase \/ ApplyMemberCase \/ ApplySwiftMemberCase

SpecCase == InitCase /\ [][NextCase]_vars

MaxTypeCode == 20

TypeCodes == (0 - 1)..MaxTypeCode

TypeRefs == {None, <<>>, <<".","p","k","g",".","F","o","o">>, <<".","p","k","g",".","f","o","o","_","b","a","r">>}

InitType ==
    /\ swift \in BOOLEAN
    /\ EngineIdle
    /\ fnName = "none"
    /\ fnIn \in [number : TypeCodes, typeName : TypeRefs]
    /\ fnOut = <<>>

ApplyGetTypeName ==
    /\ pc = "idle"
    /\ fnName = "none"
    /\ fnName' = "getTypeName"
    /\ fnOut' = getTypeName(fnIn.number, fnIn.typeName)
    /\ UNCHANGED <<fnIn>>
    /\ UNCHANGED engineVars

ApplyTypeIsBuiltIn ==
    /\ pc = "idle"
    /\ fnName = "none"
    /\ fnName' = "typeIsBuiltIn"
    /\ fnOut' = typeIsBuiltIn(fnIn.number, fnIn.typeName)
    /\ UNCHANGED <<fnIn>>
    /\ UNCHANGED engineVars

NextType == ApplyGetTypeName \/ ApplyTypeIsBuiltIn

SpecType == InitType /\ [][NextType]_vars

MaxLevel == 2

MessagePool == {mPoint, mLeaf, mInner, mOuter, mFooBar, mGrp}

PrefixPool == {<<"A",".","p","r","o","t","o">>, <<"B",".","p","r","o","t","o",".","O","u","t","e","r">>, <<"C">>}

InitMsg ==
    /\ swift \in BOOLEAN
    /\ EngineIdle
    /\ fnName = "none"
    /\ fnIn \in [prefix : PrefixPool, msg : MessagePool, level : 0..MaxLevel]
    /\ fnOut = <<>>

ApplyProcessMessage ==
    /\ pc = "idle"
    /\ fnName = "none"
    /\ fnName' = "processMessage"
    /\ fnOut' = processMessage(fnIn.prefix, fnIn.msg, fnIn.level)
    /\ UNCHANGED <<fnIn>>
    /\ UNCHANGED engineVars

NextMsg == ApplyProcessMessage

SpecMsg == InitMsg /\ [][NextMsg]_vars

MaxOptionLines == 2

\* Lines of the text dump of an option block: two plain options, an option
\* whose value holds ": ", and the opening line of a message-typed option
OptionLinePool ==
    { <<"j","a","v","a","_","p","a","c","k","a","g","e",":"," ","\"","c","o","m",".","a","\"">>,
      <<"c","c","_","e","n","a","b","l","e","_","a","r","e","n","a","s",":"," ","t","r","u","e">>,
      <<"o","b","j","c","_","c","l","a","s","s","_","p","r","e","f","i","x",":"," ","\"","A",":"," ","B","\"">>,
      <<"[","o","]"," ","{">> }

\* str(protoFile.options): every line ends in a newline
OptionTexts ==
    {Concat([i \in 1..Len(ls) |-> ls[i] \o <<"\n">>]) :
        ls \in SeqsUpTo(OptionLinePool, MaxOptionLines)}

InitOpt ==
    /\ swift \in BOOLEAN
    /\ \E text \in OptionTexts, p \in ParameterPool :
          /\ req = [parameter |-> p,
                    proto_file |-> <<ProtoFile(<<"o",".","p","r","o","t","o">>, <<"p","k","g">>, text, <<>>, <<>>, <<>>)>>]
          /\ loadParameters(req) # ErrDict
          /\ parameters = loadParameters(req)
    /\ options = UnsetDict
    /\ packageName = Unset
    /\ javaPackage = Unset
    /\ kmmPackage = Unset
    /\ response = <<>>
    /\ stdout = <<>>
    /\ pc = "loadOptions"
    /\ fileIdx = 1
    /\ calls = <<>>
    /\ ProbeIdle

NextOpt == LoadOptions

SpecOpt == InitOpt /\ [][NextOpt]_vars

MethodPool ==
    {Method(n, i, o, cs, ss) :
        n \in { <<"s","a","y","_","h","e","l","l","o">>, <<"c","h","a","t">> },
        i \in { <<".","p","k","g",".","P","o","i","n","t">>, <<".","p","k","g",".","f","o","o","_","b","a","r">> },
        o \in { <<".","p","k","g",".","P","o","i","n","t">>, <<".","p","k","g",".","f","o","o","_","b","a","r">> },
        cs \in BOOLEAN, ss \in BOOLEAN}

InitSig ==
    /\ swift \in BOOLEAN
    /\ EngineIdle
    /\ fnName = "none"
    /\ fnIn \in [method : MethodPool, withCallbacks : BOOLEAN]
    /\ fnOut = <<>>

ApplyGetMethodSignature ==
    /\ pc = "idle"
    /\ fnName = "none"
    /\ fnName' = "getMethodSignature"
    /\ fnOut' = getMethodSignature(fileB, sGreeter, fnIn.method, fnIn.withCallbacks)
    /\ UNCHANGED <<fnIn>>
    /\ UNCHANGED engineVars

NextSig == ApplyGetMethodSignature

SpecSig == InitSig /\ [][NextSig]_vars

\* FieldDescriptorProto.Type: the wire-type codes a schema can carry
FieldKinds == 1..18

\* The type references a field of each kind carries
FieldTypeRefs(kind) ==
    IF kind = TYPE_MESSAGE THEN { <<".","p","k","g",".","P","o","i","n","t">> }
    ELSE IF kind = TYPE_ENUM
    THEN { <<".","p","k","g",".","C","o","l","o","r">>, <<".","p","k","g",".","I","n","t">> }
    ELSE IF kind = TYPE_GROUP THEN { <<".","p","k","g",".","G","r","p",".","G">> }
    ELSE { <<>> }

FieldPool ==
    UNION {{Field(n, k, t, l, d) :
                n \in { <<"x">>, <<"f","o","o","_","b","a","r">> },
                t \in FieldTypeRefs(k),
                l \in {1, LABEL_REPEATED},
                d \in { <<>>, <<"7">> }} : k \in FieldKinds}

InitField ==
    /\ swift = FALSE
    /\ EngineIdle
    /\ fnName = "none"
    /\ fnIn \in {[msg |-> mLeaf, field |-> f, level |-> lv] :
                    f \in FieldPool, lv \in 0..MaxLevel}
    /\ fnOut = <<>>

ApplyProcessField ==
    /\ pc = "idle"
    /\ fnName = "none"
    /\ fnName' = "processField"
    /\ fnOut' = processField(fnIn.msg, fnIn.field, fnIn.level)
    /\ UNCHANGED <<fnIn>>
    /\ UNCHANGED engineVars

ApplyProcessFieldKmmdata ==
    /\ pc = "idle"
    /\ fnName = "none"
    /\ fnName' = "processFieldKmmdata"
    /\ fnOut' = processFieldKmmdata(fnIn.msg, fnIn.field, fnIn.level)
    /\ UNCHANGED <<fnIn>>
    /\ UNCHANGED engineVars

ApplyProcessFieldToJVM ==
    /\ pc = "idle"
    /\ fnName = "none"
    /\ fnName' = "processFieldToJVM"
    /\ fnOut' = processFieldToJVM(fnIn.msg, fnIn.field, fnIn.level)
    /\ UNCHANGED <<fnIn>>
    /\ UNCHANGED engineVars

ApplyProcessFieldFromJVM ==
    /\ pc = "idle"
    /\ fnName = "none"
    /\ fnName' = "processFieldFromJVM"
    /\ fnOut' = processFieldFromJVM(fnIn.msg, fnIn.field, fnIn.level)
    /\ UNCHANGED <<fnIn>>
    /\ UNCHANGED engineVars

\* The enum an enum-typed field of the pool refers to
EnumOf(field) ==
    IF field.type_name = <<".","p","k","g",".","I","n","t">> THEN eInt ELSE eColor

\* The adapters of the enum the field refers to
ApplyProcessEnumJvmConv ==
    /\ pc = "idle"
    /\ fnName = "none"
    /\ fnIn.field.type = TYPE_ENUM
    /\ fnName' = "processEnumJvmConv"
    /\ fnOut' = processEnumJvmConv(EnumOf(fnIn.field), <<"P","k","g">>)
    /\ UNCHANGED <<fnIn>>
    /\ UNCHANGED engineVars

NextField ==
    \/ ApplyProcessField
    \/ ApplyProcessFieldKmmdata
    \/ ApplyProcessFieldToJVM
    \/ ApplyProcessFieldFromJVM
    \/ ApplyProcessEnumJvmConv

SpecField == InitField /\ [][NextField]_vars

(***************************************************************************)
(* Method binding: the engine calls its hooks on self, so a call binds to  *)
(* the definition of the generator's own class when it has one and to the  *)
(* definition of Generator otherwise.  A definition is given by the names  *)
(* of its parameters after self; none has a default or a starred parameter.*)
(***************************************************************************)
MaxDecls == 2

\* Generator: the hooks the traversal calls on self
engineHooks ==
    [processEnum      |-> <<"prefix", "enum", "indentationLevel">>,
     processMessage   |-> <<"prefix", "msg", "indentationLevel">>,
     processField     |-> <<"msg", "field", "indentationLevel">>,
     messageOpening   |-> <<"prefix", "msg", "name", "indentationLevel">>,
     messageClosing   |-> <<"msg", "name", "indentationLevel">>,
     getServiceHeader |-> <<"protoFile", "serv">>,
     getServiceMethod |-> <<"protoFile", "serv", "method">>,
     getServiceFooter |-> <<"protoFile", "serv">>]

\* Generator: the hooks whose body raises NotImplementedError
abstractHooks == {"processEnum", "processField", "messageOpening", "messageClosing"}

\* protoc-gen-kmm-data.py, KtDataGenerator
kmmDataHooks ==
    [processEnum    |-> <<"enum", "indentationLevel">>,
     messageOpening |-> <<"msg", "name", "indentationLevel">>,
     messageClosing |-> <<"msg", "name", "indentationLevel">>,
     processField   |-> <<"msg", "field", "indentationLevel">>]

\* protoc-gen-kmmdata.py, KtDataGenerator
kmmdataHooks ==
    [processEnum    |-> <<"enum", "indentationLevel">>,
     messageOpening |-> <<"msg", "name", "indentationLevel">>,
     messageClosing |-> <<"msg", "name", "indentationLevel">>,
     processField   |-> <<"msg", "field", "indentationLevel">>]

\* protoc-gen-kmm-jvm-conv.py, JvmConvGenerator
jvmConvHooks ==
    [processEnum    |-> <<"enum", "indentationLevel">>,
     processMessage |-> <<"msg", "indentationLevel">>]

\* protoc-gen-kmm-grpc-shared.py, KMMGrpcSharedGenerator
grpcSharedHooks ==
    [processEnum      |-> <<"enum", "indentationLevel">>,
     processMessage   |-> <<"msg", "indentationLevel">>,
     getServiceHeader |-> <<"protoFile", "serv", "indentationLevel">>,
     getServiceFooter |-> <<"protoFile", "serv", "indentationLevel">>,
     getServiceMethod |-> <<"protoFile", "serv", "method", "indentationLevel">>]

\* The generator each script constructs in main(), by its baseName; the two
\* data generators are told apart by the name of their script
Generators == {"kmm-data", "kmmdata", "kmm-jvm-conv", "kmm-grpc-shared"}

\* The methods the class of a generator defines itself
overrides(generator) ==
    CASE generator = "kmm-data" -> kmmDataHooks
      [] generator = "kmmdata" -> kmmdataHooks
      [] generator = "kmm-jvm-conv" -> jvmConvHooks
      [] generator = "kmm-grpc-shared" -> grpcSharedHooks

overridden(generator, hook) == hook \in DOMAIN overrides(generator)

\* Attribute lookup on self: the class first, then Generator
boundParameters(generator, hook) ==
    IF overridden(generator, hook) THEN overrides(generator)[hook]
    ELSE engineHooks[hook]

\* The result of a part of the traversal: the exception that ended it, or
\* "none", and the hook calls made, each with the number of its arguments
Returned(cs) == [raised |-> "none", hookCalls |-> cs]
RaisedIn(exception, cs) == [raised |-> exception, hookCalls |-> cs]

\* Statement sequencing: b runs after a unless a raised
ThenH(a, b) ==
    CHOOSE r \in {IF x.raised # "none" THEN x
                  ELSE [raised |-> y.raised,
                        hookCalls |-> x.hookCalls \o y.hookCalls] :
                  x \in {a}, y \in {b}} : TRUE

\* A for loop over bodies; it stops at the first body that raises
RECURSIVE ChainH(_)
ChainH(rs) ==
    IF Len(rs) = 0 THEN Returned(<<>>)
    ELSE IF rs[1].raised # "none" THEN rs[1]
    ELSE ThenH(rs[1], ChainH(Tail(rs)))

\* self.hook(*args): binding a call to a definition with another number of
\* parameters raises TypeError before the body runs; the body of a hook
\* Generator leaves to its subclasses raises NotImplementedError
callHook(generator, hook, args) ==
    LET entry == <<[hook |-> hook, nargs |-> Len(args)]>>
    IN IF Len(args) # Len(boundParameters(generator, hook))
       THEN RaisedIn("TypeError", entry)
       ELSE IF ~overridden(generator, hook) /\ hook \in abstractHooks
       THEN RaisedIn("NotImplementedError", entry)
       ELSE Returned(entry)

RECURSIVE processMessageOf(_, _, _, _)

\* self.processMessage(prefix, msg, indentationLevel): the body that runs is
\* the override's when the class has one.  KMMGrpcSharedGenerator's returns
\* []; JvmConvGenerator's reads self.fromJvm, which only getContent assigns
\* and nothing calls getContent
callProcessMessage(generator, args) ==
    CHOOSE r \in
      {IF bound.raised # "none" THEN bound
       ELSE IF ~overridden(generator, "processMessage")
       THEN ThenH(bound, processMessageOf(generator, args[1], args[2], args[3]))
       ELSE IF generator = "kmm-jvm-conv"
       THEN RaisedIn("AttributeError", bound.hookCalls)
       ELSE bound :
       bound \in {callHook(generator, "processMessage", args)}} : TRUE

\* Generator.processMessage, with every hook bound through self
processMessageOf(generator, prefix, msg, indentationLevel) ==
    LET name == typeNameCase(msg.name)
        level1 == indentationLevel + 1
        prefix1 == prefix \o <<".">> \o name
        opening == callHook(generator, "messageOpening",
                            <<prefix, msg, name, indentationLevel>>)
        enums == ChainH([i \in 1..Len(msg.enum_type) |->
                    callHook(generator, "processEnum",
                             <<prefix1, msg.enum_type[i], level1>>)])
        nested == ChainH([i \in 1..Len(msg.nested_type) |->
                    callProcessMessage(generator,
                             <<prefix1 \o name, msg.nested_type[i], level1>>)])
        fields == ChainH([i \in 1..Len(msg.field) |->
                    callHook(generator, "processField",
                             <<msg, msg.field[i], level1>>)])
        closing == callHook(generator, "messageClosing",
                            <<msg, name, closingLevel(level1)>>)
    IN IF name = Err THEN RaisedIn("IndexError", <<>>)
       ELSE ThenH(opening, ThenH(enums, ThenH(nested, ThenH(fields, closing))))

\* Generator.processMessagesAndEnums, with every hook bound through self
processMessagesAndEnumsOf(generator, protoFile) ==
    LET protoName == typeNameCase(protoFile.name)
        indentationLevel == 0
        enums == ChainH([i \in 1..Len(protoFile.enum_type) |->
                    callHook(generator, "processEnum",
                             <<protoName, protoFile.enum_type[i], indentationLevel>>)])
        msgs == ChainH([i \in 1..Len(protoFile.message_type) |->
                    callProcessMessage(generator,
                             <<protoName, protoFile.message_type[i], indentationLevel>>)])
    IN IF protoName = Err THEN RaisedIn("IndexError", <<>>)
       ELSE ThenH(enums, msgs)

\* Generator.processService, with every hook bound through self
processServiceOf(generator, protoFile, serv) ==
    ThenH(callHook(generator, "getServiceHeader", <<protoFile, serv>>),
      ThenH(ChainH([i \in 1..Len(serv.method) |->
                      callHook(generator, "getServiceMethod",
                               <<protoFile, serv, serv.method[i]>>)]),
            callHook(generator, "getServiceFooter", <<protoFile, serv>>)))

\* Generator.processServices, with every hook bound through self
processServicesOf(generator, protoFile) ==
    ChainH([i \in 1..Len(protoFile.service) |->
              processServiceOf(generator, protoFile, protoFile.service[i])])

\* Generator.processProtoFile for the generator of one script
processProtoFileOf(generator, protoFile) ==
    IF ~loadOptions(protoFile).ok THEN RaisedIn("KeyError", <<>>)
    ELSE ThenH(processMessagesAndEnumsOf(generator, protoFile),
               processServicesOf(generator, protoFile))

\* Schema files with up to MaxDecls top-level enums, up to MaxDecls
\* top-level messages, with or without a service, and a java_package option
HookFilePool ==
    {ProtoFile(fileA.name, fileA.package, fileA.options, es, ms, ss) :
        es \in SeqsUpTo({eColor, eKind}, MaxDecls),
        ms \in SeqsUpTo({mLeaf, mOuter}, MaxDecls),
        ss \in {<<>>, <<sGreeter>>}}

InitHook ==
    /\ swift = FALSE
    /\ EngineIdle
    /\ fnName = "none"
    /\ fnIn \in {[generator |-> g, protoFile |-> f] :
                    g \in Generators, f \in HookFilePool}
    /\ fnOut = <<>>

\* main() of a script, down to Generator.processProtoFile on one file
ApplyProcessProtoFile ==
    /\ pc = "idle"
    /\ fnName = "none"
    /\ fnName' = "processProtoFile"
    /\ \E r \in {processProtoFileOf(fnIn.generator, fnIn.protoFile)} : fnOut' = r
    /\ UNCHANGED <<fnIn>>
    /\ UNCHANGED engineVars

NextHook == ApplyProcessProtoFile

SpecHook == InitHook /\ [][NextHook]_vars

(***************************************************************************)
(* Properties                                                              *)
(***************************************************************************)
\* The output the naming rule describes: the characters of raw other than
\* "_", in order; a character that starts raw or follows a "_" uppercased,
\* every other character passed through tail when raw holds a "_" and kept
\* when it holds none
CasedBy(raw, tail(_)) ==
    LET multi == \E i \in 1..Len(raw) : raw[i] = "_"
        marked == [i \in 1..Len(raw) |->
                    << raw[i],
                       IF i = 1 \/ raw[i - 1] = "_" THEN UpperChar(raw[i])
                       ELSE IF multi THEN tail(raw[i])
                       ELSE raw[i] >>]
        kept == SelectSeq(marked, LAMBDA p : p[1] # "_")
    IN [i \in 1..Len(kept) |-> kept[i][2]]

KeepChar(c) == c

\* C10 as stated: typeNameCase(raw) uppercases the first character of raw
\* (no underscore) or of every underscore-separated segment and keeps every
\* other character as it is; typeNameCase("foo_bar") = "FooBar" and
\* typeNameCase("foo") = "Foo".
C10_TailsKept ==
    fnName = "typeNameCase" =>
        /\ fnOut = CasedBy(fnIn, KeepChar)
        /\ (fnIn = <<"f","o","o","_","b","a","r">> => fnOut = <<"F","o","o","B","a","r">>)
        /\ (fnIn = <<"f","o","o">> => fnOut = <<"F","o","o">>)

\* C10 amended: typeNameCase(raw), for a non-empty raw: without an underscore
\* the result is raw with its first character uppercased and the rest kept;
\* with an underscore it is the concatenation of the segments, each with its
\* first character uppercased and its remaining characters LOWERCASED;
\* typeNameCase("foo_bar") = "FooBar" and typeNameCase("foo") = "Foo".
C10_TailsLowered ==
    fnName = "typeNameCase" =>
        /\ fnOut = CasedBy(fnIn, LowerChar)
        /\ (fnIn = <<"f","o","o","_","b","a","r">> => fnOut = <<"F","o","o","B","a","r">>)
        /\ (fnIn = <<"f","o","o">> => fnOut = <<"F","o","o">>)

\* a multi-segment name with an uppercase letter inside a segment, cased
C10_Witness ==
    /\ fnName = "typeNameCase"
    /\ fnIn = <<"a", "B", "_">>
    /\ fnOut = <<"A", "b">>

\* a wire-type code outside the table, or one whose entry is empty and that is
\* neither MESSAGE nor ENUM
UnknownCode(number) ==
    /\ number \notin {TYPE_MESSAGE, TYPE_ENUM}
    /\ \/ number < 0
       \/ number >= Len(knownTypes)
       \/ knownTypes[number + 1] = None

\* C8 as stated: for every unknown wire-type code, with or without a type
\* reference, getTypeName and typeIsBuiltIn raise no error, typeIsBuiltIn
\* answers "not built-in" and getTypeName resolves the reference as a
\* user-defined type.
C8_UnknownCodeDegrades ==
    /\ (fnName = "getTypeName" /\ UnknownCode(fnIn.number)) =>
          /\ fnOut # Err
          /\ (fnIn.typeName \notin {None, <<>>} =>
                fnOut = convertTypeName(fnIn.typeName) \o <<"?">>)
    /\ (fnName = "typeIsBuiltIn" /\ UnknownCode(fnIn.number)) =>
          fnOut = False

\* The pieces of the output of processMessage for the probed message, in the
\* order C1 gives: opening, one block and a blank line per nested enum, one
\* block and a blank line per nested message, the lines of each field, closing
MsgSegments ==
    LET msg == fnIn.msg
        name == typeNameCase(msg.name)
        level1 == fnIn.level + 1
        prefix1 == fnIn.prefix \o <<".">> \o name
    IN << messageOpening(fnIn.prefix, msg, name, fnIn.level).lines >>
       \o [i \in 1..Len(msg.enum_type) |->
             processEnum(prefix1, msg.enum_type[i], level1).lines \o << <<>> >>]
       \o [i \in 1..Len(msg.nested_type) |->
             processMessage(prefix1 \o name, msg.nested_type[i], level1).lines
             \o << <<>> >>]
       \o [i \in 1..Len(msg.field) |-> processField(msg, msg.field[i], level1).lines]
       \o << messageClosing(msg, name, fnIn.level).lines >>

RECURSIVE TotalLen(_)
TotalLen(segs) == IF Len(segs) = 0 THEN 0 ELSE Len(segs[1]) + TotalLen(Tail(segs))

\* the index in the output of the first line of segment i
SegStart(segs, i) == 1 + TotalLen(SubSeq(segs, 1, i - 1))

\* the index of the line immediately before the closing lines
LastBodyLine(segs) == TotalLen(segs) - Len(segs[Len(segs)])

C4_NoTrailingSeparator ==
    (fnName = "processMessage" /\ fnOut.ok /\ Len(fnIn.msg.field) > 0) =>
        LET segs == MsgSegments
            out == fnOut.lines
            raw == Join(<<>>, segs)
            at == LastBodyLine(segs)
        IN /\ ~EndsWith(out[at], <<",">>)
           /\ out[at] \o <<",">> = raw[at]
           /\ \A i \in 1..Len(out) : i # at => out[i] = raw[i]

Range(seq) == {seq[i] : i \in 1..Len(seq)}

\* flatten a sequence of sequences
Flatten(seqs) == Join(<<>>, seqs)

\* the files the step from the current state to the next added to the response
Added == SubSeq(response', Len(response) + 1, Len(response'))

C3_UniqueNames ==
    \A i, j \in 1..Len(response) : i # j => response[i].name # response[j].name

\* C5: when a fatal condition is raised while processing any schema file,
\* nothing is written to standard output; the response is written only after
\* every schema file has been processed without error.
C5_NoOutputOnFatal ==
    /\ pc = "aborted" => stdout = <<>>
    /\ stdout # <<>> =>
          /\ pc = "done"
          /\ fileIdx = Len(req.proto_file) + 1
          /\ stdout = <<response>>

\* the second file of a request failed after the first one produced output
C5_Witness ==
    /\ pc = "aborted"
    /\ fileIdx = 2
    /\ response # <<>>
    /\ stdout = <<>>

\* The calls the engine makes for the top-level declarations and the services
TopLevelCalls ==
    LET top == SelectSeq(calls, LAMBDA c :
                 \/ c.hook \in {"getDataHeader", "getDataFooter", "getServiceHeader",
                                "getServiceMethod", "getServiceFooter"}
                 \/ (c.hook \in {"processEnum", "messageOpening"} /\ c.level = 0))
    IN [i \in 1..Len(top) |-> <<top[i].hook, top[i].name>>]

ServiceCalls(f) ==
    Flatten([i \in 1..Len(f.service) |->
        << <<"getServiceHeader", f.service[i].name>> >>
        \o [k \in 1..Len(f.service[i].method) |->
              <<"getServiceMethod", f.service[i].method[k].name>>]
        \o << <<"getServiceFooter", f.service[i].name>> >>])

EnumCalls(f) == [i \in 1..Len(f.enum_type) |-> <<"processEnum", f.enum_type[i].name>>]
MessageCalls(f) ==
    [i \in 1..Len(f.message_type) |-> <<"messageOpening", f.message_type[i].name>>]

\* header, enums, messages, services, footer
CallsFooterLast(f) ==
    << <<"getDataHeader", f.name>> >> \o EnumCalls(f) \o MessageCalls(f)
    \o ServiceCalls(f) \o << <<"getDataFooter", f.name>> >>

\* Swift: header, enums, messages, footer, services.  Kotlin: header,
\* declaration, footer for every enum and then every message; services.
CallsFooterBeforeServices(f) ==
    IF swift
    THEN << <<"getDataHeader", f.name>> >> \o EnumCalls(f) \o MessageCalls(f)
         \o << <<"getDataFooter", f.name>> >> \o ServiceCalls(f)
    ELSE Flatten([i \in 1..Len(f.enum_type) + Len(f.message_type) |->
            << <<"getDataHeader", f.name>>,
               (EnumCalls(f) \o MessageCalls(f))[i],
               <<"getDataFooter", f.name>> >>])
         \o ServiceCalls(f)

BetweenFiles == pc \in {"loadOptions", "serialize", "done"}

FilesDone == SubSeq(req.proto_file, 1, fileIdx - 1)

OptionLines(f) == Split(Strip(f.options), <<"\n">>)

\* line is "key: value"
LineHasKey(line, key) == StartsWith(line, key \o <<":", " ">>)

\* C7: while the hooks of file k run, the option map holds exactly the keys
\* and values of file k's own option block (no key of an earlier file
\* survives), packageName, javaPackage and kmmPackage are the ones derived
\* from file k, and the parameters are the ones loadParameters read from the
\* request, unchanged by any file.
C7_OptionsPerFile ==
    /\ pc \in {"processMessagesAndEnums", "processServices"} =>
        LET f == req.proto_file[fileIdx]
        IN /\ \A key \in DOMAIN options :
                \E i \in 1..Len(OptionLines(f)) :
                    LET line == OptionLines(f)[i]
                    IN /\ LineHasKey(line, key)
                       /\ options[key] =
                            RemoveChar(SubSeq(line, Len(key) + 3, Len(line)), "\"")
           /\ \A i \in 1..Len(OptionLines(f)) :
                \E key \in DOMAIN options : LineHasKey(OptionLines(f)[i], key)
           /\ packageName = typeNameCase(f.package)
           /\ ~swift =>
                /\ javaPackage = options[sJavaPackage]
                /\ kmmPackage = IF sKmmPackage \in DOMAIN parameters
                                THEN parameters[sKmmPackage]
                                ELSE javaPackage \o sKmm
           /\ swift => (javaPackage = Unset /\ kmmPackage = Unset)
    /\ pc \in {"loadOptions", "processMessagesAndEnums", "processServices",
               "serialize", "done"} =>
        parameters = loadParameters(req)
    /\ parameters \in {UnsetDict, loadParameters(req)}

\* a.proto is processed after b.proto, whose option block has a key that
\* a.proto's does not have
C7_Witness ==
    /\ pc = "processMessagesAndEnums"
    /\ fileIdx = 2
    /\ req.proto_file = <<fileB, fileA>>
    /\ DOMAIN options = {sJavaPackage}

RECURSIVE AllMessages(_)
\* a message and the messages nested in it, at any depth
AllMessages(msg) ==
    {msg} \cup UNION {AllMessages(msg.nested_type[i]) : i \in 1..Len(msg.nested_type)}

FileMessages(f) == UNION {AllMessages(f.message_type[i]) : i \in 1..Len(f.message_type)}

RECURSIVE NestedEnums(_, _)
\* the enums declared in msg, at any depth, with their qualified names
NestedEnums(scope, msg) ==
    LET inner == scope \o <<".">> \o msg.name
    IN {<<inner \o <<".">> \o msg.enum_type[i].name, msg.enum_type[i]>> :
            i \in 1..Len(msg.enum_type)}
       \cup UNION {NestedEnums(inner, msg.nested_type[i]) : i \in 1..Len(msg.nested_type)}

FileEnums(f) ==
    LET scope == <<".">> \o f.package
    IN {<<scope \o <<".">> \o f.enum_type[i].name, f.enum_type[i]>> :
            i \in 1..Len(f.enum_type)}
       \cup UNION {NestedEnums(scope, f.message_type[i]) : i \in 1..Len(f.message_type)}

\* field is a non-repeated enum field with no explicit default
NeedsEnumDefault(field) ==
    /\ field.type = TYPE_ENUM
    /\ field.label # LABEL_REPEATED
    /\ Len(field.default_value) = 0

\* the enum the field refers to is declared in the request and has no member
\* whose value is 0
EnumLacksZero(field) ==
    \E k \in 1..Len(req.proto_file) : \E qe \in FileEnums(req.proto_file[k]) :
        /\ qe[1] = field.type_name
        /\ \A i \in 1..Len(qe[2].value) : qe[2].value[i].number # 0

\* the schema files whose data files are in the response
FilesEmitted ==
    SubSeq(req.proto_file, 1,
           IF pc = "processServices" THEN fileIdx ELSE fileIdx - 1)

ZeroOrLookup(typeName) ==
    CASE typeName = sString -> <<"\"", "\"">>
      [] typeName = sBoolean -> <<"f","a","l","s","e">>
      [] typeName = sInt -> <<"0">>
      [] typeName = sLong -> <<"0","L">>
      [] typeName = sDouble -> <<"0",".","0">>
      [] typeName = sFloat -> <<"0",".","0","F">>
      [] typeName = sByteArray -> <<"ByteArray(size = 0)">>
      [] OTHER -> typeName \o <<" ","f","r","o","m"," ","0">>

DropComma(line) ==
    IF EndsWith(line, <<",">>) THEN SubSeq(line, 1, Len(line) - 1) ELSE line

LowerFirst(s) ==
    IF s = Err \/ Len(s) = 0 THEN s ELSE <<LowerChar(s[1])>> \o Rest(s)

\* out follows the camelCase rule for raw: it holds the characters of raw
\* other than "_", in order and case aside; the first character of raw is
\* lowercased and a character that follows a "_" is uppercased
CamelCased(raw, out) ==
    LET marked == [i \in 1..Len(raw) |-> <<raw[i], i>>]
        kept == SelectSeq(marked, LAMBDA p : p[1] # "_")
    IN /\ out # Err
       /\ Len(out) = Len(kept)
       /\ \A k \in 1..Len(kept) :
            LET i == kept[k][2]
            IN IF i = 1 THEN out[k] = LowerChar(raw[i])
               ELSE IF raw[i - 1] = "_" THEN out[k] = UpperChar(raw[i])
               ELSE LowerChar(out[k]) = LowerChar(raw[i])

\* C11: memberCase(raw), for every non-empty raw name, is the camelCase of
\* raw: split on "_", first segment with its first character lowercased,
\* every later segment with its first character uppercased, concatenated;
\* memberCase("foo_bar") = "fooBar"; and memberCase(raw) equals
\* typeNameCase(raw) with its first character lowercased.
C11_CamelCase ==
    fnName = "memberCase" =>
        /\ CamelCased(fnIn, fnOut)
        /\ (fnIn = <<"f","o","o","_","b","a","r">> => fnOut = <<"f","o","o","B","a","r">>)
        /\ fnOut = LowerFirst(typeNameCase(fnIn))

\* The name swiftMemberCase is described to return: memberCase(raw), with a
\* final segment that is "Id" after casing replaced by "ID"
SwiftCased(raw) ==
    LET m == memberCase(raw)
        segs == Split(raw, <<"_">>)
    IN IF m = Err THEN Err
       ELSE IF Len(segs) >= 2 /\ Capitalize(segs[Len(segs)]) = <<"I", "d">>
       THEN SubSeq(m, 1, Len(m) - 2) \o <<"I", "D">>
       ELSE m

\* C12: swiftMemberCase(raw) equals memberCase(raw) for every raw name,
\* except that a final "_"-separated segment that is "Id" after casing is
\* emitted as "ID"; an "Id" segment in the middle of a name stays "Id", and a
\* name without an "Id" final segment is returned as memberCase returns it.
C12_SwiftIdSuffix ==
    fnName = "swiftMemberCase" => fnOut = SwiftCased(fnIn)

FieldHookRan == fnName \in {"processField", "processFieldKmmdata"}

\* the last "."-separated part of a type reference
LastPart(ref) == Split(ref, <<".">>)[Len(Split(ref, <<".">>))]

\* The zero literal of each kind
ZeroLiteral(field) ==
    IF field.type \in {5, 7, 13, 15, 17} THEN <<"0">>
    ELSE IF field.type \in {3, 4, 6, 16, 18} THEN <<"0", "L">>
    ELSE IF field.type = 1 THEN <<"0", ".", "0">>
    ELSE IF field.type = 2 THEN <<"0", ".", "0", "F">>
    ELSE IF field.type = 8 THEN <<"f","a","l","s","e">>
    ELSE IF field.type = 9 THEN <<"\"", "\"">>
    ELSE IF field.type = 12 THEN <<"ByteArray(size = 0)">>
    ELSE IF field.type = TYPE_ENUM THEN LastPart(field.type_name) \o sFrom0
    ELSE <<"n","u","l","l">>

\* C13: for a non-repeated field with no explicit default the data-class
\* field hook emits the zero literal of the correct subtype: "0" for 32-bit
\* integers, "0L" for 64-bit integers, "0.0" for double, "0.0F" for float,
\* "false" for boolean, the empty string literal for string, the empty
\* byte-array constructor for bytes, the value-0 member lookup for an enum
\* and null for a message.
C13_ZeroLiterals ==
    (/\ FieldHookRan
     /\ fnIn.field.label # LABEL_REPEATED
     /\ Len(fnIn.field.default_value) = 0
     /\ fnIn.field.type # TYPE_GROUP)
    => /\ fnOut.ok
       /\ Len(fnOut.lines) = 1
       /\ EndsWith(fnOut.lines[1],
                   <<" ", "=", " ">> \o ZeroLiteral(fnIn.field) \o <<",">>)

\* The element type of a field: the built-in of its kind, or the name its
\* type reference ends in
ElementType(field) ==
    IF field.type \in {TYPE_MESSAGE, TYPE_ENUM, TYPE_GROUP}
    THEN LastPart(field.type_name)
    ELSE knownTypes[field.type + 1]

\* C14: for every field with the REPEATED label, whatever its element kind
\* and with or without an explicit default, the data-class field hook emits
\* the type List<T>, T being the element type without a trailing "?", and
\* the default emptyList(), never null.
C14_RepeatedIsList ==
    (FieldHookRan /\ fnIn.field.label = LABEL_REPEATED)
    => /\ fnOut.ok
       /\ Len(fnOut.lines) = 1
       /\ EndsWith(fnOut.lines[1],
                   <<":", " ">> \o sList \o ElementType(fnIn.field) \o <<">">>
                   \o <<" ", "=", " ", "emptyList()", ",">>)

\* the position of the first ": " of line, 0 when it has none
FirstSep(line) ==
    IF Contains(line, <<":", " ">>)
    THEN CHOOSE k \in 1..Len(line) :
            /\ OccursAt(line, <<":", " ">>, k)
            /\ \A j \in 1..(k - 1) : ~OccursAt(line, <<":", " ">>, j)
    ELSE 0

KeyOf(line) == SubSeq(line, 1, FirstSep(line) - 1)
ValueOf(line) == RemoveChar(SubSeq(line, FirstSep(line) + 2, Len(line)), "\"")

LoadOptionsRan == pc \in {"processMessagesAndEnums", "aborted"}

\* C15: loadOptions splits the option dump on newlines and each line on the
\* first ": " only: the key is the text before it and the value all the text
\* after it (a later ": " included) with the quote characters removed; when
\* a line has no ": ", or the option block is empty, loadOptions is fatal and
\* no option map is produced.
C15_SplitOnFirstSeparator ==
    LoadOptionsRan =>
        LET lines == OptionLines(req.proto_file[1])
        IN IF \E i \in 1..Len(lines) : FirstSep(lines[i]) = 0
           THEN pc = "aborted" /\ options = UnsetDict
           ELSE /\ options # UnsetDict
                /\ DOMAIN options = {KeyOf(lines[i]) : i \in 1..Len(lines)}
                /\ \A i \in 1..Len(lines) :
                        options[KeyOf(lines[i])] = ValueOf(lines[i])

\* C16: process run again on the same request (same schema files in the same
\* order, same parameter string) ends as the first run did and yields a
\* response with the same number of files, the same names in the same order
\* and the same contents, whatever the run before left in the Generator.
C16_Deterministic ==
    (fnName \in {"again", "againAfterOther"} /\ RunEnded) =>
        /\ pc = fnOut.pc
        /\ Len(response) = Len(fnOut.response)
        /\ \A i \in 1..Len(response) :
                /\ response[i].name = fnOut.response[i].name
                /\ response[i].content = fnOut.response[i].content

\* the first request is run again after a run on another request, and
\* yields its two or more files again
C16_Witness ==
    /\ fnName = "againAfterOther"
    /\ pc = "done"
    /\ Len(response) >= 2
    /\ response = fnOut.response

\* The calls of the four declaration hooks, in the order they were made
DeclarationCalls ==
    SelectSeq(calls, LAMBDA c : c.hook \in {"processEnum", "messageOpening",
                                            "processField", "messageClosing"})

RECURSIVE MessageTrace(_, _, _)
\* The hook calls the traversal of msg is described to make: the message is
\* opened and closed at level, with prefix; its nested enums, nested
\* messages and fields are at level + 1, and the nested declarations get
\* prefix extended by "." and the cased name of msg
MessageTrace(prefix, msg, level) ==
    LET inner == prefix \o <<".">> \o typeNameCase(msg.name)
    IN <<Call("messageOpening", prefix, msg.name, level)>>
       \o [i \in 1..Len(msg.enum_type) |->
              Call("processEnum", inner, msg.enum_type[i].name, level + 1)]
       \o Flatten([i \in 1..Len(msg.nested_type) |->
              MessageTrace(inner, msg.nested_type[i], level + 1)])
       \o [i \in 1..Len(msg.field) |->
              Call("processField", None, msg.field[i].name, level + 1)]
       \o <<Call("messageClosing", None, msg.name, level)>>

\* every top-level declaration of f starts from the cased file name, level 0
FileTrace(f) ==
    [i \in 1..Len(f.enum_type) |->
        Call("processEnum", typeNameCase(f.name), f.enum_type[i].name, 0)]
    \o Flatten([i \in 1..Len(f.message_type) |->
        MessageTrace(typeNameCase(f.name), f.message_type[i], 0)])

RequestTrace == Flatten([k \in 1..Len(req.proto_file) |-> FileTrace(req.proto_file[k])])

\* the calls made so far are the first calls of the described trace, and all
\* of them once the run has come to its end
TraceFollowed(same(_, _)) ==
    /\ Len(DeclarationCalls) <= Len(RequestTrace)
    /\ \A i \in 1..Len(DeclarationCalls) : same(DeclarationCalls[i], RequestTrace[i])
    /\ pc \in {"serialize", "done"} => Len(DeclarationCalls) = Len(RequestTrace)

SamePrefix(c, d) == c.hook = d.hook /\ c.name = d.name /\ c.prefix = d.prefix

\* C17: the prefix a nested declaration receives is the prefix of its parent
\* extended by one occurrence of the parent's cased name, so that at every
\* hook call the prefix is the top-level prefix followed by the dotted chain
\* of the cased names of the ancestor messages, each once; a nested enum and
\* a nested message of one parent receive the same prefix, and every
\* top-level declaration starts from the same top-level prefix.
C17_PrefixChain == TraceFollowed(SamePrefix)

SameLevel(c, d) == c.hook = d.hook /\ c.name = d.name /\ c.level = d.level

CallsAdapter(line, adapter) == Contains(line, adapter)

\* line calls no adapter at all
NoAdapter(line) ==
    ~Contains(line, <<"f","r","o","m","D","a","t","a">>) /\ ~Contains(line, <<"t","o","D","a","t","a">>)

\* every adapter call of line comes after a safe call on the source value src,
\* read as it is or through its OrNull accessor
UnderAbsenceGuard(line, src, adapter) ==
    \E k \in 1..Len(line) :
        /\ \/ OccursAt(line, src \o <<"?",".">>, k)
           \/ OccursAt(line, src \o <<"O","r","N","u","l","l","?",".">>, k)
        /\ \A j \in 1..Len(line) : OccursAt(line, adapter, j) => j > k

\* the adapter is mapped over the sequence src, element by element
ElementWise(line, src, adapter) ==
    Contains(line, src \o <<".","m","a","p"," ","{"," ","i","t",".">> \o adapter \o <<"(",")"," ","}">>)

\* C19: in both directions and for every field, a built-in scalar (singular
\* or repeated) is copied directly with no adapter call; a singular message
\* reference gets the adapter call only under an absence guard; a repeated
\* message reference gets an element-wise adapter call applied to the
\* field's own sequence; an enum is converted through its integer value,
\* never through its name.
C19_ConverterFieldRule ==
    /\ (fnName \in {"processFieldToJVM", "processFieldFromJVM"}
        /\ fnIn.field.type # TYPE_GROUP) =>
          LET field == fnIn.field
              toNative == fnName = "processFieldToJVM"
              src == (IF toNative THEN <<"d","a","t","a",".">> ELSE <<"t","h","i","s",".">>)
                        \o memberCase(field.name)
              adapter == IF toNative THEN <<"f","r","o","m","D","a","t","a">> ELSE <<"t","o","D","a","t","a">>
              line == fnOut.lines[1]
          IN /\ fnOut.ok
             /\ Len(fnOut.lines) = 1
             /\ IF field.type = TYPE_MESSAGE
                THEN /\ CallsAdapter(line, adapter)
                     /\ IF field.label = LABEL_REPEATED
                        THEN ElementWise(line, src, adapter)
                        ELSE UnderAbsenceGuard(line, src, adapter)
                ELSE IF field.type = TYPE_ENUM
                THEN CallsAdapter(line, adapter) /\ ~Contains(line, <<"n","a","m","e">>)
                ELSE NoAdapter(line) /\ EndsWith(line, <<" ","="," ">> \o src)
    /\ fnName = "processEnumJvmConv" =>
          /\ fnOut.ok
          /\ \E i \in 1..Len(fnOut.lines) :
                Contains(fnOut.lines[i], <<"f","o","r","V","a","l","u","e","(","d","a","t","a",".","v","a","l","u","e",")">>)
          /\ \E i \in 1..Len(fnOut.lines) :
                Contains(fnOut.lines[i], <<"f","r","o","m"," ","t","h","i","s",".","v","a","l","u","e">>)
          /\ \A i \in 1..Len(fnOut.lines) :
                /\ ~Contains(fnOut.lines[i], <<".","n","a","m","e">>)
                /\ ~Contains(fnOut.lines[i], <<"v","a","l","u","e","O","f">>)

\* the lines of a signature that declare a result callback parameter
CallbackLines(sig) ==
    {i \in 1..Len(sig) : StartsWith(LStrip(sig[i]), <<"r","e","s","u","l","t",":"," ">>)}

\* the lines of a signature that declare a parameter: those after the line
\* that opens the parameter list and before the line that closes it
ParameterLines(sig) ==
    {i \in 2..Len(sig) : ~StartsWith(LStrip(sig[i]), <<")">>)}

HasSuspend(sig) == \E i \in 1..Len(sig) : Contains(sig[i], <<"s","u","s","p","e","n","d">>)

\* C20: in Swift mode, for every method, whatever its client-streaming and
\* server-streaming flags, getMethodSignature emits exactly one result
\* callback parameter, it is the last parameter, its success-value type and
\* its failure-message type are both nullable, and there is no suspend
\* marker; in Kotlin mode without callbacks there is no callback parameter
\* and the suspend marker is present exactly when the method is not
\* server-streaming.
C20_MethodSignature ==
    fnName = "getMethodSignature" =>
        /\ fnOut # Err
        /\ swift =>
              /\ Cardinality(CallbackLines(fnOut)) = 1
              /\ \A i \in CallbackLines(fnOut) :
                    /\ i \in ParameterLines(fnOut)
                    /\ \A j \in ParameterLines(fnOut) : j <= i
                    /\ StartsWith(LStrip(fnOut[i]), <<"r","e","s","u","l","t",":"," ","@","e","s","c","a","p","i","n","g"," ","(">>
                            \o convertTypeName(fnIn.method.output_type)
                            \o <<"?",","," ","S","t","r","i","n","g","?",")">>)
              /\ ~HasSuspend(fnOut)
        /\ (~swift /\ ~fnIn.withCallbacks) =>
              /\ CallbackLines(fnOut) = {}
              /\ HasSuspend(fnOut) <=> ~fnIn.method.server_streaming
              /\ HasSuspend(fnOut) => StartsWith(LStrip(fnOut[1]), <<"s","u","s","p","e","n","d"," ","f","u","n"," ">>)

\* Swift, a method streaming in both directions: the callback is the only
\* parameter of the three-line signature
C20_Witness ==
    /\ fnName = "getMethodSignature"
    /\ swift
    /\ fnIn.method.server_streaming
    /\ fnIn.method.client_streaming
    /\ Len(fnOut) = 3
    /\ CallbackLines(fnOut) = {2}


\* C21: every hook override of the four generator scripts takes exactly the
\* arguments the traversal engine passes (processEnum and processMessage:
\* naming prefix, descriptor, indent; messageOpening: naming prefix, message,
\* cased name, indent; messageClosing: message, cased name, indent), so
\* processing a schema file with at least one top-level enum or message
\* reaches the end of processProtoFile without raising, in each generator.
C21_HooksAgree ==
    (/\ fnName = "processProtoFile"
     /\ Len(fnIn.protoFile.enum_type) + Len(fnIn.protoFile.message_type) >= 1)
       => /\ \A i \in 1..Len(fnOut.hookCalls) :
                fnOut.hookCalls[i].nargs =
                    Len(boundParameters(fnIn.generator, fnOut.hookCalls[i].hook))
          /\ fnOut.raised = "none"

====
